---- MODULE Spec2Model ----
(***************************************************************************)
(* Model of the sales-dashboard aggregation engine (dataService) of the    *)
(* repository: filterData, getCascadingOptions and calculateKPIs.          *)
(*                                                                         *)
(* Text values the code scans (payment terms, dates, months) are tuples of *)
(* one-character strings, so that split / match / parseInt / substring are *)
(* computed character by character as the code computes them.  Numbers the *)
(* code divides are exact rationals <<n, d>> in lowest terms with d > 0;   *)
(* <<0, 0>> stands for NaN.                                                *)
(***************************************************************************)
EXTENDS Integers, Sequences, FiniteSets, TLC

\* data:     the SaleRecord list the engine is called on
\* filters:  the FilterState
\* calls:    the engine function called on (data, filters), once one is
\* kpis:     the result of calculateKPIs(data), once called
\* filtered: the result of filterData(data, filters), once called
\* options:  the result of getCascadingOptions(data, filters), once called
VARIABLES data, filters, calls, kpis, filtered, options,
          entityStats, productStats, pivotData, pivotTable, geoStats, cityCoordsCache,
          csv, app, reads, table, panel, service

\* The results of the aggregators and the gazetteer cache of getCityCoords.
aggregates == <<entityStats, productStats, pivotData, pivotTable, geoStats, cityCoordsCache>>

\* The state of the components: the useState values of App beside allData
\* (data) and filters, the FileReader loads that have not fired onload yet, the
\* detail table of App (tab, search term, page, the lengths of the four
\* memoized tables, the page effect still to run), the useState values of
\* InsightsPanel with its effect still to run, and the calls of
\* generateStrategicInsights (issued, in flight, answered).
ui == <<app, reads, table, panel, service>>

\* What the session holds beside the engine's records and results: the rows of
\* the CSV text that was read last, and the components.
session == <<csv, ui>>

vars == <<data, filters, calls, kpis, filtered, options, aggregates, session>>

(***************************************************************************)
(* Bounds of the model.                                                    *)
(***************************************************************************)
MaxKpiRows == 4
MaxTermRows == 3
MaxFilterRows == 3

(***************************************************************************)
(* Numbers.                                                                *)
(***************************************************************************)
Abs(x) == IF x < 0 THEN -x ELSE x

Max(a, b) == IF a >= b THEN a ELSE b

RECURSIVE GCD(_, _)
GCD(a, b) == IF b = 0 THEN a ELSE GCD(b, a % b)

NaN == <<0, 0>>

IsNaN(q) == q[2] = 0

\* The rational n / d in lowest terms; a division by 0 gives no finite number
\* (NaN or an infinity in JavaScript), which the model writes NaN.
Ratio(n, d) ==
    LET g == GCD(Abs(n), Abs(d))
        s == IF d < 0 THEN -1 ELSE 1
    IN  IF d = 0 THEN NaN ELSE <<(s * n) \div g, (s * d) \div g>>

FromInt(n) == <<n, 1>>

RAdd(p, q) ==
    IF IsNaN(p) \/ IsNaN(q) THEN NaN
    ELSE Ratio(p[1] * q[2] + q[1] * p[2], p[2] * q[2])

RMul(p, q) ==
    IF IsNaN(p) \/ IsNaN(q) THEN NaN
    ELSE Ratio(p[1] * q[1], p[2] * q[2])

\* p / q of JavaScript for q # 0 (the code guards every division it makes).
RDiv(p, q) ==
    IF IsNaN(p) \/ IsNaN(q) THEN NaN
    ELSE Ratio(p[1] * q[2], p[2] * q[1])

\* p >= 0 of JavaScript: false on NaN.
RGeZero(p) == ~IsNaN(p) /\ p[1] >= 0

(***************************************************************************)
(* Text: a string is a tuple of one-character strings.                     *)
(***************************************************************************)
Digits == {"0", "1", "2", "3", "4", "5", "6", "7", "8", "9"}

DigitVal(c) ==
    CASE c = "0" -> 0 [] c = "1" -> 1 [] c = "2" -> 2 [] c = "3" -> 3
      [] c = "4" -> 4 [] c = "5" -> 5 [] c = "6" -> 6 [] c = "7" -> 7
      [] c = "8" -> 8 [] c = "9" -> 9

Upper ==
    <<"A", "B", "C", "D", "E", "F", "G", "H", "I", "J", "K", "L", "M",
      "N", "O", "P", "Q", "R", "S", "T", "U", "V", "W", "X", "Y", "Z">>

Lower ==
    <<"a", "b", "c", "d", "e", "f", "g", "h", "i", "j", "k", "l", "m",
      "n", "o", "p", "q", "r", "s", "t", "u", "v", "w", "x", "y", "z">>

\* The UTF-16 code unit of a character (blank, sign, dash, slash, digit, letter).
CharCode(c) ==
    IF c \in Digits THEN 48 + DigitVal(c)
    ELSE IF \E i \in DOMAIN Upper : Upper[i] = c
    THEN 64 + (CHOOSE i \in DOMAIN Upper : Upper[i] = c)
    ELSE IF \E i \in DOMAIN Lower : Lower[i] = c
    THEN 96 + (CHOOSE i \in DOMAIN Lower : Lower[i] = c)
    ELSE CASE c = " " -> 32 [] c = "+" -> 43 [] c = "-" -> 45 [] c = "/" -> 47

\* a < b, a <= b of JavaScript strings: lexicographic on character codes.
RECURSIVE StrLtFrom(_, _, _)
StrLtFrom(a, b, i) ==
    IF i > Len(b) THEN FALSE
    ELSE IF i > Len(a) THEN TRUE
    ELSE IF CharCode(a[i]) # CharCode(b[i]) THEN CharCode(a[i]) < CharCode(b[i])
    ELSE StrLtFrom(a, b, i + 1)

StrLt(a, b) == StrLtFrom(a, b, 1)

StrLe(a, b) == a = b \/ StrLt(a, b)

\* s.substring(from, to), 0-based and end-exclusive as in JavaScript.
Substring(s, from, to) ==
    LET hi == IF to > Len(s) THEN Len(s) ELSE to
    IN  IF from >= hi THEN <<>> ELSE SubSeq(s, from + 1, hi)

\* s.split(/[seps]/): the pieces between separator characters, empty ones kept.
Split(s, seps) ==
    LET cuts == {i \in DOMAIN s : s[i] \in seps}
        \* the position of the k-th separator; 0 and Len(s) + 1 bound the text
        cut(k) == IF k = 0 THEN 0
                  ELSE IF k > Cardinality(cuts) THEN Len(s) + 1
                  ELSE CHOOSE i \in cuts : Cardinality({j \in cuts : j < i}) = k - 1
    IN  [k \in 1..(Cardinality(cuts) + 1) |-> SubSeq(s, cut(k - 1) + 1, cut(k) - 1)]

RECURSIVE TrimStart(_)
TrimStart(s) == IF s # <<>> /\ Head(s) = " " THEN TrimStart(Tail(s)) ELSE s

RECURSIVE TrimEnd(_)
TrimEnd(s) ==
    IF s # <<>> /\ s[Len(s)] = " " THEN TrimEnd(SubSeq(s, 1, Len(s) - 1)) ELSE s

Trim(s) == TrimEnd(TrimStart(s))

\* The value of the longest prefix of digits of s, and that prefix's length.
RECURSIVE DigitPrefix(_, _, _)
DigitPrefix(s, i, acc) ==
    IF i <= Len(s) /\ s[i] \in Digits
    THEN DigitPrefix(s, i + 1, 10 * acc + DigitVal(s[i]))
    ELSE [value |-> acc, len |-> i - 1]

\* parseInt(s, 10): leading blanks skipped, an optional sign, then the digits
\* up to the first character that is none; NaN when there is no digit.
ParseInt(s) ==
    LET t == TrimStart(s)
        signed == t # <<>> /\ Head(t) \in {"+", "-"}
        body == IF signed THEN Tail(t) ELSE t
        p == DigitPrefix(body, 1, 0)
    IN  IF p.len = 0 THEN NaN
        ELSE IF signed /\ Head(t) = "-" THEN FromInt(-p.value)
        ELSE FromInt(p.value)

\* Number(s) on the texts of the model (blanks, sign, digits, letters): 0 for a
\* blank text, the integer for an optionally signed run of digits, else NaN.
ToNumber(s) ==
    LET t == Trim(s)
        signed == t # <<>> /\ Head(t) \in {"+", "-"}
        body == IF signed THEN Tail(t) ELSE t
        p == DigitPrefix(body, 1, 0)
    IN  IF t = <<>> THEN FromInt(0)
        ELSE IF body = <<>> \/ p.len # Len(body) THEN NaN
        ELSE IF signed /\ Head(t) = "-" THEN FromInt(-p.value)
        ELSE FromInt(p.value)

\* Whether /\d{2}\/\d{2}\/\d{4}/ matches s at position i (1-based).
DateAt(s, i) ==
    /\ i + 9 <= Len(s)
    /\ \A k \in {0, 1, 3, 4, 6, 7, 8, 9} : s[i + k] \in Digits
    /\ s[i + 2] = "/"
    /\ s[i + 5] = "/"

\* The start positions of the global, non-overlapping, leftmost matches.
RECURSIVE DateMatchesFrom(_, _)
DateMatchesFrom(s, i) ==
    IF i > Len(s) THEN <<>>
    ELSE IF DateAt(s, i) THEN <<i>> \o DateMatchesFrom(s, i + 10)
    ELSE DateMatchesFrom(s, i + 1)

DateMatches(s) == DateMatchesFrom(s, 1)

(***************************************************************************)
(* Dates: new Date(year, monthIndex, day) in local time, as a day number.  *)
(***************************************************************************)
IsLeap(y) == (y % 4 = 0 /\ y % 100 # 0) \/ y % 400 = 0

MonthLength(y, m) ==
    IF m = 1 THEN (IF IsLeap(y) THEN 29 ELSE 28)
    ELSE IF m \in {3, 5, 8, 10} THEN 30 ELSE 31

RECURSIVE DaysBeforeMonth(_, _)
DaysBeforeMonth(y, m) ==
    IF m = 0 THEN 0 ELSE DaysBeforeMonth(y, m - 1) + MonthLength(y, m - 1)

DaysBeforeYear(y) == 365 * y + ((y - 1) \div 4) - ((y - 1) \div 100) + ((y - 1) \div 400)

\* The day number of new Date(year, monthIndex, day): a year in 0..99 is
\* 1900 + year, and a month index or a day out of range carries over.
DayNumber(year, monthIndex, day) ==
    LET y0 == IF year >= 0 /\ year <= 99 THEN 1900 + year ELSE year
        ym == y0 * 12 + monthIndex
        yy == ym \div 12
        mm == ym % 12
    IN  DaysBeforeYear(yy) + DaysBeforeMonth(yy, mm) + day - 1

\* new Date(y, m, d).getTime(), NaN when an argument is NaN.  The unit is
\* the day, not the millisecond: the code only ever rounds the difference of
\* two local midnights to whole days (Math.round(diffTime / 86400000)), which
\* is the difference of their day numbers.
DateTime(y, m, d) ==
    IF IsNaN(y) \/ IsNaN(m) \/ IsNaN(d) THEN NaN
    ELSE FromInt(DayNumber(y[1], m[1], d[1]))

(***************************************************************************)
(* Records and containers.                                                 *)
(***************************************************************************)
\* The distinct elements of a sequence: new Set(seq).
SetOf(seq) == {seq[i] : i \in DOMAIN seq}

\* seq.filter(keep), by the indices kept.
RECURSIVE KeepFrom(_, _, _)
KeepFrom(seq, keep, i) ==
    IF i > Len(seq) THEN <<>>
    ELSE IF i \in keep THEN <<seq[i]>> \o KeepFrom(seq, keep, i + 1)
    ELSE KeepFrom(seq, keep, i + 1)

SelectRows(seq, keep) == KeepFrom(seq, keep, 1)

(***************************************************************************)
(* calculateStatsInternal / calculateKPIs.                                 *)
(***************************************************************************)
\* data.reduce((acc, curr) => acc + curr.amount, 0)
RECURSIVE SumAmountFrom(_, _, _)
SumAmountFrom(rows, i, acc) ==
    IF i > Len(rows) THEN acc ELSE SumAmountFrom(rows, i + 1, acc + rows[i].amount)

TotalRevenue(rows) == SumAmountFrom(rows, 1, 0)

\* clientNetRevenue[r.cnpj] = (clientNetRevenue[r.cnpj] || 0) + r.amount
RECURSIVE ClientNetRevenueFrom(_, _, _)
ClientNetRevenueFrom(rows, i, acc) ==
    IF i > Len(rows) THEN acc
    ELSE LET r == rows[i]
             prev == IF r.cnpj \in DOMAIN acc THEN acc[r.cnpj] ELSE 0
         IN  ClientNetRevenueFrom(rows, i + 1,
                 [c \in DOMAIN acc \cup {r.cnpj} |->
                     IF c = r.cnpj THEN prev + r.amount ELSE acc[c]])

ClientNetRevenue(rows) == ClientNetRevenueFrom(rows, 1, <<>>)

\* A faulty variant of IsPositivated: a client with a zero balance counts too.
IsPositivatedOrZero(netVal) == netVal >= 0

\* .filter(([_, netVal]) => netVal > 0)
IsPositivated(netVal) == netVal > 0

ActiveClients(rows) ==
    LET net == ClientNetRevenue(rows)
    IN  {c \in DOMAIN net : IsPositivated(net[c])}

\* A faulty variant of SalesOf: RETURN rows are not left out.
SalesOfAllRows(rows) == rows

\* data.filter(r => r.operClass === 'VD')
SalesOf(rows) == SelectRows(rows, {i \in DOMAIN rows : rows[i].operClass = "VD"})

ReturnsOf(rows) == SelectRows(rows, {i \in DOMAIN rows : rows[i].operClass = "DV"})

DistinctOrders(rows) == Cardinality({rows[i].orderId : i \in DOMAIN rows})

\* A faulty variant of NetOrders: the difference is not floored.
NetOrdersUnfloored(vd, dv) == vd - dv

\* Math.max(0, distinctOrdersVD - distinctOrdersDV)
NetOrders(vd, dv) == Max(0, vd - dv)

TotalOrders(rows) == NetOrders(DistinctOrders(SalesOf(rows)), DistinctOrders(ReturnsOf(rows)))

\* A faulty variant of AverageTicket: the division is not guarded.
AverageTicketUnguarded(rows) == Ratio(TotalRevenue(rows), TotalOrders(rows))

\* totalOrders > 0 ? totalRevenue / totalOrders : 0
AverageTicket(rows) ==
    IF TotalOrders(rows) > 0 THEN Ratio(TotalRevenue(rows), TotalOrders(rows))
    ELSE FromInt(0)

\* clientSkuMap: per client the sets of product codes sold (vd) and returned (dv).
RECURSIVE ClientSkuMapFrom(_, _, _)
ClientSkuMapFrom(rows, i, acc) ==
    IF i > Len(rows) THEN acc
    ELSE LET r == rows[i]
             prev == IF r.cnpj \in DOMAIN acc THEN acc[r.cnpj] ELSE [vd |-> {}, dv |-> {}]
             next == IF r.operClass = "VD" THEN [prev EXCEPT !.vd = @ \cup {r.productCode}]
                     ELSE IF r.operClass = "DV" THEN [prev EXCEPT !.dv = @ \cup {r.productCode}]
                     ELSE prev
         IN  ClientSkuMapFrom(rows, i + 1,
                 [c \in DOMAIN acc \cup {r.cnpj} |-> IF c = r.cnpj THEN next ELSE acc[c]])

ClientSkuMap(rows) == ClientSkuMapFrom(rows, 1, <<>>)

\* A faulty variant of NetSkus: returned product codes are not subtracted.
NetSkusSoldOnly(vdCount, dvCount) == vdCount

\* Math.max(0, vdCount - dvCount)
NetSkus(vdCount, dvCount) == Max(0, vdCount - dvCount)

\* activeClients.forEach(cnpj => ... totalNetSkus += netSkus)
RECURSIVE TotalNetSkusOver(_, _)
TotalNetSkusOver(clients, skuMap) ==
    IF clients = {} THEN 0
    ELSE LET c == CHOOSE x \in clients : TRUE
             own == IF c \in DOMAIN skuMap
                    THEN NetSkus(Cardinality(skuMap[c].vd), Cardinality(skuMap[c].dv))
                    ELSE 0
         IN  own + TotalNetSkusOver(clients \ {c}, skuMap)

SkuPerPdv(rows) ==
    LET active == ActiveClients(rows)
    IN  IF Cardinality(active) > 0
        THEN Ratio(TotalNetSkusOver(active, ClientSkuMap(rows)), Cardinality(active))
        ELSE FromInt(0)

\* The number of tokens of a split that are not blank: .filter(s => s.trim().length > 0).length
RECURSIVE CountNonBlank(_, _)
CountNonBlank(tokens, i) ==
    IF i > Len(tokens) THEN 0
    ELSE (IF Len(Trim(tokens[i])) > 0 THEN 1 ELSE 0) + CountNonBlank(tokens, i + 1)

\* A faulty variant of InstallmentCount: date tokens are not looked for, the text is
\* always split on '-' and '/'.
InstallmentCountSplitOnly(terms) == CountNonBlank(Split(terms, {"-", "/"}), 1)

\* installmentCount of one row's payment terms.
InstallmentCount(terms) ==
    LET dateMatches == DateMatches(terms)
    IN  IF Len(dateMatches) > 0 THEN Len(dateMatches)
        ELSE CountNonBlank(Split(terms, {"-", "/"}), 1)

\* sales.forEach(r => ...): totalWeightedInstallments and totalSalesForInstallments.
RECURSIVE InstallmentTotalsFrom(_, _, _)
InstallmentTotalsFrom(sales, i, acc) ==
    IF i > Len(sales) THEN acc
    ELSE LET r == sales[i]
             n == IF r.paymentTerms # <<>> THEN InstallmentCount(r.paymentTerms) ELSE 0
         IN  InstallmentTotalsFrom(sales, i + 1,
                 IF n > 0
                 THEN [weighted |-> acc.weighted + n * r.amount, weight |-> acc.weight + r.amount]
                 ELSE acc)

InstallmentTotals(rows) == InstallmentTotalsFrom(SalesOf(rows), 1, [weighted |-> 0, weight |-> 0])

AvgInstallments(rows) ==
    LET t == InstallmentTotals(rows)
    IN  IF t.weight > 0 THEN Ratio(t.weighted, t.weight) ELSE FromInt(0)

\* The invoice date of a row as a time: r.date.split('-').map(Number), then
\* new Date(y, m - 1, d).
NfeTime(date) ==
    LET parts == Split(date, {"-"})
        y == ToNumber(parts[1])
        m == IF Len(parts) >= 2 THEN ToNumber(parts[2]) ELSE NaN
        d == IF Len(parts) >= 3 THEN ToNumber(parts[3]) ELSE NaN
    IN  DateTime(y, RAdd(m, FromInt(-1)), d)

\* The time of the due date matched at position i of the terms: dd/mm/yyyy.
DueTime(terms, i) ==
    DateTime(ParseInt(SubSeq(terms, i + 6, i + 9)),
             RAdd(ParseInt(SubSeq(terms, i + 3, i + 4)), FromInt(-1)),
             ParseInt(SubSeq(terms, i, i + 1)))

\* currentOrderTotalDays: the sum over the due dates of the rounded day difference.
RECURSIVE DueDaysSum(_, _, _, _)
DueDaysSum(terms, matches, nfe, k) ==
    IF k > Len(matches) THEN FromInt(0)
    ELSE RAdd(RAdd(DueTime(terms, matches[k]), RMul(FromInt(-1), nfe)),
              DueDaysSum(terms, matches, nfe, k + 1))

\* !isNaN(day) && day > 0 && day < 2000
IsValidDay(day) == ~IsNaN(day) /\ day[1] > 0 /\ day[1] < 2000

\* validDaysSum and validDaysCount over the tokens of the split.
RECURSIVE ValidDays(_, _)
ValidDays(tokens, i) ==
    IF i > Len(tokens) THEN [sum |-> 0, count |-> 0]
    ELSE LET day == ParseInt(tokens[i])
             rest == ValidDays(tokens, i + 1)
         IN  IF IsValidDay(day)
             THEN [sum |-> rest.sum + day[1], count |-> rest.count + 1]
             ELSE rest

\* avgDaysForOrder as computed for a row whose order is not in the cache yet.
OrderDays(r) ==
    LET dateMatches == DateMatches(r.paymentTerms)
        valid == ValidDays(Split(r.paymentTerms, {"-", "/"}), 1)
    IN  IF Len(dateMatches) > 0
        THEN RDiv(DueDaysSum(r.paymentTerms, dateMatches, NfeTime(r.date), 1),
                  FromInt(Len(dateMatches)))
        ELSE IF valid.count > 0 THEN Ratio(valid.sum, valid.count)
        ELSE FromInt(0)

\* A faulty variant of TermDaysFor: the cache is not read, every row computes its own days.
TermDaysUncached(cache, r) == OrderDays(r)

\* orderTermCache[r.orderId] !== undefined ? orderTermCache[r.orderId] : <computed>
TermDaysFor(cache, r) ==
    IF r.orderId \in DOMAIN cache THEN cache[r.orderId] ELSE OrderDays(r)

\* sales.forEach(r => ...) of the average term: the cache, totalWeightedDays,
\* totalSalesForTerm, and (history) the rows added to the two totals, each with
\* its index among the SALE rows, its order id and the day value it was weighted with.
RECURSIVE TermTotalsFrom(_, _, _)
TermTotalsFrom(sales, i, acc) ==
    IF i > Len(sales) THEN acc
    ELSE LET r == sales[i]
         IN  IF r.paymentTerms # <<>> /\ r.date # <<>>
             THEN LET days == TermDaysFor(acc.cache, r)
                      cache == [o \in DOMAIN acc.cache \cup {r.orderId} |->
                                   IF o = r.orderId THEN days ELSE acc.cache[o]]
                  IN  TermTotalsFrom(sales, i + 1,
                          IF RGeZero(days)
                          THEN [cache |-> cache,
                                weighted |-> RAdd(acc.weighted, RMul(days, FromInt(r.amount))),
                                weight |-> acc.weight + r.amount,
                                used |-> Append(acc.used,
                                            [index |-> i, orderId |-> r.orderId, days |-> days])]
                          ELSE [acc EXCEPT !.cache = cache])
             ELSE TermTotalsFrom(sales, i + 1, acc)

TermTotals(rows) ==
    TermTotalsFrom(SalesOf(rows), 1,
        [cache |-> <<>>, weighted |-> FromInt(0), weight |-> 0, used |-> <<>>])

AvgTerm(rows) ==
    LET t == TermTotals(rows)
    IN  IF t.weight > 0 THEN RDiv(t.weighted, FromInt(t.weight)) ELSE FromInt(0)

\* The KPIStats of a record list, with the totals behind the two weighted means.
calculateStatsInternal(rows) ==
    [totalRevenue |-> TotalRevenue(rows),
     positivacao |-> Cardinality(ActiveClients(rows)),
     totalOrders |-> TotalOrders(rows),
     averageTicket |-> AverageTicket(rows),
     skuPerPdv |-> SkuPerPdv(rows),
     avgInstallments |-> AvgInstallments(rows),
     avgTerm |-> AvgTerm(rows),
     installmentTotals |-> InstallmentTotals(rows),
     termTotals |-> TermTotals(rows)]

calculateKPIs(rows) == calculateStatsInternal(rows)

(***************************************************************************)
(* filterData and getCascadingOptions.                                     *)
(***************************************************************************)
All == <<"a", "l", "l">>

\* filterValues.includes(v)
Includes(filterValues, v) == \E i \in DOMAIN filterValues : filterValues[i] = v

\* A faulty variant of Matches: the sentinel 'all' is not recognised.
MatchesNoSentinel(recordValue, filterValues) ==
    Len(filterValues) = 0 \/ Includes(filterValues, recordValue)

\* matches(recordValue, filterValues) of filterData
Matches(recordValue, filterValues) ==
    IF Len(filterValues) = 0 \/ Includes(filterValues, All) THEN TRUE
    ELSE Includes(filterValues, recordValue)

RecordMonth(record) == Substring(record.date, 0, 7)

\* recordMonth >= filters.startMonth && recordMonth <= filters.endMonth
InDateRange(record, f) ==
    StrLe(f.startMonth, RecordMonth(record)) /\ StrLe(RecordMonth(record), f.endMonth)

\* The predicate of data.filter(record => ...) in filterData.
FilterKeeps(record, f) ==
    /\ Matches(record.division, f.division)
    /\ Matches(record.region, f.region)
    /\ Matches(record.sector, f.sector)
    /\ Matches(record.salesRep, f.salesRep)
    /\ Matches(record.channel, f.channel)
    /\ Matches(record.supplier, f.supplier)
    /\ InDateRange(record, f)

\* A faulty variant of filterData: the rejected records are spliced out of the
\* list while a forward loop walks it, so the record after a removed one is
\* never tested.
RECURSIVE SpliceRejected(_, _, _)
SpliceRejected(rows, f, i) ==
    IF i > Len(rows) THEN rows
    ELSE IF FilterKeeps(rows[i], f) THEN SpliceRejected(rows, f, i + 1)
    ELSE SpliceRejected(SelectRows(rows, DOMAIN rows \ {i}), f, i + 1)

filterDataSplicing(rows, f) == SpliceRejected(rows, f, 1)

filterData(rows, f) == SelectRows(rows, {i \in DOMAIN rows : FilterKeeps(rows[i], f)})

\* One line of getOptionsFor: a dimension that filtersToApply holds, that does
\* not include 'all', is not empty and does not include the record's value
\* rejects the record.
Rejects(filtersToApply, key, record) ==
    /\ key \in DOMAIN filtersToApply
    /\ ~Includes(filtersToApply[key], All)
    /\ Len(filtersToApply[key]) > 0
    /\ ~Includes(filtersToApply[key], record[key])

DimensionKeys == {"division", "region", "sector", "salesRep", "channel", "supplier"}

\* A faulty variant of OptionKeeps: the date range is not applied.
OptionKeepsAnyMonth(record, currentFilters, filtersToApply) ==
    \A key \in DimensionKeys : ~Rejects(filtersToApply, key, record)

\* The predicate of data.filter(record => ...) in getOptionsFor.
OptionKeeps(record, currentFilters, filtersToApply) ==
    /\ ~StrLt(RecordMonth(record), currentFilters.startMonth)
    /\ ~StrLt(currentFilters.endMonth, RecordMonth(record))
    /\ \A key \in DimensionKeys : ~Rejects(filtersToApply, key, record)

\* Array.from(new Set(seq)): the first occurrences, in order.
RECURSIVE Dedupe(_, _)
Dedupe(seq, i) ==
    IF i > Len(seq) THEN <<>>
    ELSE IF \E j \in 1..(i - 1) : seq[j] = seq[i] THEN Dedupe(seq, i + 1)
    ELSE <<seq[i]>> \o Dedupe(seq, i + 1)

\* .filter(Boolean) on strings: the empty string is dropped.
DropEmpty(seq) == SelectRows(seq, {i \in DOMAIN seq : seq[i] # <<>>})

\* Insertion of v into an ascending sequence, by the default comparison of sort().
RECURSIVE InsertSorted(_, _)
InsertSorted(sorted, v) ==
    IF sorted = <<>> THEN <<v>>
    ELSE IF StrLt(v, Head(sorted)) THEN <<v>> \o sorted
    ELSE <<Head(sorted)>> \o InsertSorted(Tail(sorted), v)

\* seq.sort()
RECURSIVE SortStrings(_)
SortStrings(seq) ==
    IF seq = <<>> THEN <<>> ELSE InsertSorted(SortStrings(Tail(seq)), Head(seq))

\* const { [key]: _, ...rest } = currentFilters
Without(f, key) == [k \in DOMAIN f \ {key} |-> f[k]]

\* A faulty variant of FiltersFor: the dimension's own filter is applied too.
FiltersForKeepOwn(currentFilters, key) == currentFilters

\* filtersNoDivision, filtersNoRegion, ...: the filters without the dimension's own.
FiltersFor(currentFilters, key) == Without(currentFilters, key)

getOptionsFor(rows, currentFilters, key, filtersToApply) ==
    LET subset == SelectRows(rows,
                      {i \in DOMAIN rows : OptionKeeps(rows[i], currentFilters, filtersToApply)})
        values == [i \in DOMAIN subset |-> subset[i][key]]
    IN  SortStrings(DropEmpty(Dedupe(values, 1)))

getCascadingOptions(rows, currentFilters) ==
    [divisions |-> getOptionsFor(rows, currentFilters, "division", FiltersFor(currentFilters, "division")),
     regions |-> getOptionsFor(rows, currentFilters, "region", FiltersFor(currentFilters, "region")),
     sectors |-> getOptionsFor(rows, currentFilters, "sector", FiltersFor(currentFilters, "sector")),
     reps |-> getOptionsFor(rows, currentFilters, "salesRep", FiltersFor(currentFilters, "salesRep")),
     channels |-> getOptionsFor(rows, currentFilters, "channel", FiltersFor(currentFilters, "channel")),
     suppliers |-> getOptionsFor(rows, currentFilters, "supplier", FiltersFor(currentFilters, "supplier"))]

(***************************************************************************)
(* The inputs: SaleRecords and FilterStates.                               *)
(***************************************************************************)
Row(division, region, sector, salesRep, channel, supplier, date, cnpj, productCode, amount, orderId, operClass, paymentTerms) ==
    [division |-> division, region |-> region, sector |-> sector, salesRep |-> salesRep,
     channel |-> channel, supplier |-> supplier, date |-> date, cnpj |-> cnpj,
     productCode |-> productCode, amount |-> amount, orderId |-> orderId,
     operClass |-> operClass, paymentTerms |-> paymentTerms]

Nov15 == <<"2", "0", "2", "5", "-", "1", "1", "-", "1", "5">>
Dec05 == <<"2", "0", "2", "5", "-", "1", "2", "-", "0", "5">>

T30 == <<"3", "0">>
T306090 == <<"3", "0", "-", "6", "0", "-", "9", "0">>
TAVista == <<"A", "V">>
TDash == <<" ", "-", " ">>
TOutOfRange == <<"0", "-", "2", "0", "0", "0">>
TDue1512 == <<"1", "5", "/", "1", "2", "/", "2", "0", "2", "5">>
TDue0110 == <<"0", "1", "/", "1", "0", "/", "2", "0", "2", "5">>
TDueTwo == TDue1512 \o <<"-">> \o <<"1", "4", "/", "0", "1", "/", "2", "0", "2", "6">>

\* A record that differs only in the fields the client, order and SKU metrics read.
KpiRow(cnpj, operClass, amount, orderId, productCode) ==
    Row(<<"N">>, <<"R", "1">>, <<"A">>, <<"J">>, <<"R", "C">>, <<"X">>, Nov15,
        cnpj, productCode, amount, orderId, operClass, T30)

KpiRows ==
    { KpiRow("A", "VD", 100, "O1", "P1"),
      KpiRow("A", "DV", -100, "O1", "P1"),
      KpiRow("A", "VD", 100, "O2", "P2"),
      KpiRow("A", "VD", 300, "O3", "P3"),
      KpiRow("B", "DV", -20, "O4", "P1"),
      KpiRow("B", "VD", 100, "O4", "P2"),
      KpiRow("A", "DV", -100, "O5", "P2"),
      KpiRow("B", "VD", 0, "O6", "P3"),
      KpiRow("B", "DV", -100, "O7", "P3") }

\* A record that differs only in the fields the two payment-term metrics read.
TermRow(operClass, amount, orderId, paymentTerms, date) ==
    Row(<<"N">>, <<"R", "1">>, <<"A">>, <<"J">>, <<"R", "C">>, <<"X">>, date,
        "A", "P1", amount, orderId, operClass, paymentTerms)

TermRows ==
    { TermRow("VD", 100, "O1", T306090, Nov15),
      TermRow("DV", -100, "O1", <<>>, Nov15),
      TermRow("VD", 300, "O1", TDue1512, Nov15),
      TermRow("VD", 100, "O1", TDue1512, Dec05),
      TermRow("VD", 100, "O2", TAVista, Nov15),
      TermRow("VD", 100, "O2", TOutOfRange, Nov15),
      TermRow("DV", -100, "O1", T30, Nov15),
      TermRow("VD", 100, "O3", TDue0110, Nov15),
      TermRow("VD", 200, "O3", T30, Nov15),
      TermRow("VD", 100, "O4", <<>>, Nov15),
      TermRow("VD", 100, "O4", TDash, Nov15),
      TermRow("VD", 100, "O5", TDueTwo, Nov15),
      TermRow("VD", 0, "O5", T30, Nov15),
      TermRow("VD", -100, "O6", T30, Nov15) }

NoFilter ==
    [division |-> <<>>, region |-> <<>>, sector |-> <<>>, salesRep |-> <<>>,
     channel |-> <<>>, supplier |-> <<>>,
     startMonth |-> <<"2", "0", "2", "5", "-", "0", "8">>,
     endMonth |-> <<"2", "0", "2", "5", "-", "1", "1">>]

Aug10 == <<"2", "0", "2", "5", "-", "0", "8", "-", "1", "0">>
Sep10 == <<"2", "0", "2", "5", "-", "0", "9", "-", "1", "0">>
Nov20LastYear == <<"2", "0", "2", "4", "-", "1", "1", "-", "2", "0">>

\* A record that differs only in the fields the filter engine reads.
FilterRow(division, region, sector, salesRep, channel, supplier, date) ==
    Row(division, region, sector, salesRep, channel, supplier, date,
        "A", "P1", 100, "O1", "VD", T30)

FilterRows ==
    { FilterRow(<<"N">>, <<"R", "1">>, <<"A">>, <<"J">>, <<"R", "C">>, <<"X">>, Aug10),
      FilterRow(<<"N">>, <<"R", "1">>, <<"B">>, <<"K">>, <<"W", "E", "B">>, <<"Y">>, Sep10),
      FilterRow(<<"S">>, <<"R", "2">>, <<"A", "B">>, <<"J">>, <<"R", "C">>, <<"Y">>, Nov15),
      FilterRow(<<"N">>, <<"R", "2">>, <<"A">>, <<"K">>, <<"W", "E", "B">>, <<"X">>, Dec05),
      FilterRow(<<"S">>, <<"R", "2">>, <<"B">>, <<"J">>, <<"W", "E", "B">>, <<"Y">>, Nov20LastYear) }

\* { ...filters, [key]: values }
WithFilter(f, key, values) == [f EXCEPT ![key] = values]

\* { ...filters, startMonth, endMonth }
WithMonths(f, startMonth, endMonth) ==
    [f EXCEPT !.startMonth = startMonth, !.endMonth = endMonth]

M202401 == <<"2", "0", "2", "4", "-", "0", "1">>
M202509 == <<"2", "0", "2", "5", "-", "0", "9">>
M202510 == <<"2", "0", "2", "5", "-", "1", "0">>
M202512 == <<"2", "0", "2", "5", "-", "1", "2">>

FilterStates ==
    { NoFilter,
      WithFilter(NoFilter, "division", <<<<"N">>>>),
      WithFilter(NoFilter, "region", <<<<"R", "2">>>>),
      WithFilter(NoFilter, "sector", <<<<"A">>>>),
      WithFilter(NoFilter, "salesRep", <<<<"J">>>>),
      WithFilter(NoFilter, "channel", <<<<"R", "C">>>>),
      WithFilter(NoFilter, "supplier", <<<<"X">>>>),
      WithFilter(NoFilter, "division", <<All>>),
      WithFilter(NoFilter, "sector", <<<<"A">>, All>>),
      WithFilter(NoFilter, "channel", <<<<"R", "C">>, <<"W", "E", "B">>>>),
      WithFilter(NoFilter, "sector", <<<<"Z">>>>),
      WithFilter(WithFilter(NoFilter, "division", <<<<"N">>>>), "sector", <<<<"A">>>>),
      WithFilter(WithFilter(WithFilter(NoFilter, "region", <<<<"R", "1">>>>),
                            "channel", <<<<"R", "C">>>>), "supplier", <<<<"X">>>>),
      WithFilter(WithFilter(NoFilter, "salesRep", <<<<"K">>>>), "supplier", <<<<"Y">>, All>>),
      WithMonths(NoFilter, M202509, M202510),
      WithMonths(NoFilter, M202510, M202509),
      WithMonths(NoFilter, M202401, M202512),
      WithMonths(WithFilter(NoFilter, "division", <<<<"S">>>>), M202510, M202512) }

NoKpis ==
    [totalRevenue |-> 0, positivacao |-> 0, totalOrders |-> 0,
     averageTicket |-> FromInt(0), skuPerPdv |-> FromInt(0),
     avgInstallments |-> FromInt(0), avgTerm |-> FromInt(0),
     installmentTotals |-> [weighted |-> 0, weight |-> 0],
     termTotals |-> [cache |-> <<>>, weighted |-> FromInt(0), weight |-> 0, used |-> <<>>]]

NoOptions ==
    [divisions |-> <<>>, regions |-> <<>>, sectors |-> <<>>, reps |-> <<>>,
     channels |-> <<>>, suppliers |-> <<>>]

\* No pivot computed and no pivot table rendered yet.
NoPivot == [rows |-> <<>>, months |-> <<>>, monthTotals |-> <<>>, grandTotal |-> <<>>]

NoTable == [dataKey |-> "", sortedRows |-> <<>>, columnTotals |-> <<>>, grandTotal |-> FromInt(0)]

\* let cityCoordsCache = null: a reference is a list of no or one value.
Null == <<>>

(***************************************************************************)
(* The state machine: a record list is loaded row by row, then the engine  *)
(* functions are called on it.                                             *)
(***************************************************************************)
\* useState of App at its first render, once initData has called setLoading(true).
AppMounted ==
    [loading |-> TRUE, isSetupComplete |-> FALSE, selectedChannels |-> <<>>,
     selectedRegions |-> <<>>, selectedDivisions |-> <<>>]

\* activeTab, searchTerm and currentPage at the first render, over empty tables.
TableMounted ==
    [activeTab |-> "clients", searchTerm |-> <<>>, currentPage |-> 1,
     lengths |-> [tab \in {"clients", "products", "suppliers", "redes"} |-> 0],
     effects |-> FALSE]

\* useState of InsightsPanel at its first render; its effect has not run yet.
PanelMounted == [insight |-> <<>>, loading |-> FALSE, effects |-> TRUE]

\* No call of generateStrategicInsights was made yet.
NoRequests == [issued |-> 0, pending |-> {}, answers |-> <<>>]

InitUi(appState) ==
    /\ app = appState
    /\ reads = <<>>
    /\ table = TableMounted
    /\ panel = PanelMounted
    /\ service = NoRequests

InitSession == csv = <<>> /\ InitUi(AppMounted)

InitEngine(rows, f) ==
    /\ data = rows
    /\ filters = f
    /\ calls = {}
    /\ kpis = NoKpis
    /\ filtered = <<>>
    /\ options = getCascadingOptions(rows, f)
    /\ entityStats = <<>>
    /\ productStats = <<>>
    /\ pivotData = NoPivot
    /\ pivotTable = NoTable
    /\ geoStats = <<>>
    /\ cityCoordsCache = Null

InitWith(f) == InitEngine(<<>>, f) /\ InitSession

\* records.push(r), while the list is being built.
LoadRow(rows, max) ==
    /\ calls = {}
    /\ Len(data) < max
    /\ \E r \in rows : data' = Append(data, r)
    /\ UNCHANGED <<filters, calls, kpis, filtered, options, aggregates, session>>

LoadKpiRow == LoadRow(KpiRows, MaxKpiRows)

LoadTermRow == LoadRow(TermRows, MaxTermRows)

CalculateKPIs ==
    /\ calls = {}
    /\ kpis' = calculateKPIs(data)
    /\ calls' = calls \cup {"calculateKPIs"}
    /\ UNCHANGED <<data, filters, filtered, options, aggregates, session>>

InitKpi == InitWith(NoFilter)

NextKpi == LoadKpiRow \/ CalculateKPIs

SpecKpi == InitKpi /\ [][NextKpi]_vars

NextTerms == LoadTermRow \/ CalculateKPIs

SpecTerms == InitKpi /\ [][NextTerms]_vars

KpisDone == "calculateKPIs" \in calls

(***************************************************************************)
(* What the claims speak of, stated on the record list itself.             *)
(***************************************************************************)
RECURSIVE SumAmountOver(_, _)
SumAmountOver(rows, idx) ==
    IF idx = {} THEN 0
    ELSE LET i == CHOOSE x \in idx : TRUE
         IN  rows[i].amount + SumAmountOver(rows, idx \ {i})

ClientsOf(rows) == {rows[i].cnpj : i \in DOMAIN rows}

NetOf(rows, c) == SumAmountOver(rows, {i \in DOMAIN rows : rows[i].cnpj = c})

PositivatedClients(rows) == {c \in ClientsOf(rows) : NetOf(rows, c) > 0}

OrdersOfClass(rows, class) ==
    {rows[i].orderId : i \in {j \in DOMAIN rows : rows[j].operClass = class}}

SkusOf(rows, c, class) ==
    {rows[i].productCode :
        i \in {j \in DOMAIN rows : rows[j].cnpj = c /\ rows[j].operClass = class}}

NetSkusOf(rows, c) ==
    LET n == Cardinality(SkusOf(rows, c, "VD")) - Cardinality(SkusOf(rows, c, "DV"))
    IN  IF n > 0 THEN n ELSE 0

RECURSIVE SumNetSkus(_, _)
SumNetSkus(rows, clients) ==
    IF clients = {} THEN 0
    ELSE LET c == CHOOSE x \in clients : TRUE
         IN  NetSkusOf(rows, c) + SumNetSkus(rows, clients \ {c})

\* C1: positivacao is the number of distinct clients whose summed amount over
\* the list is strictly positive; a client whose net amount is zero or negative
\* is not counted, even if it has SALE rows.
C1_Positivacao ==
    KpisDone => kpis.positivacao = Cardinality(PositivatedClients(data))

\* A client with SALE rows and a zero net amount, and a positivacao that leaves it out.
C1_Witness ==
    /\ KpisDone
    /\ \E c \in ClientsOf(data) :
          /\ NetOf(data, c) = 0
          /\ \E i \in DOMAIN data :
                data[i].cnpj = c /\ data[i].operClass = "VD" /\ data[i].amount = 100
          /\ \E i \in DOMAIN data : data[i].cnpj = c /\ data[i].amount = -100
    /\ kpis.positivacao = 0

\* C2: totalOrders is max(0, distinct SALE order ids - distinct RETURN order
\* ids), so it is never negative.
C2_TotalOrders ==
    KpisDone =>
        LET n == Cardinality(OrdersOfClass(data, "VD")) - Cardinality(OrdersOfClass(data, "DV"))
        IN  /\ kpis.totalOrders = (IF n > 0 THEN n ELSE 0)
            /\ kpis.totalOrders >= 0

\* More RETURN orders than SALE orders, and a totalOrders of 0.
C2_Witness ==
    /\ KpisDone
    /\ Cardinality(OrdersOfClass(data, "DV")) > Cardinality(OrdersOfClass(data, "VD"))
    /\ Cardinality(OrdersOfClass(data, "VD")) > 0
    /\ kpis.totalOrders = 0

\* C3: skuPerPdv is the sum, over the positivated clients, of max(0, distinct
\* SALE product codes - distinct RETURN product codes), divided by positivacao,
\* and 0 when positivacao is 0; it is never negative.
C3_SkuPerPdv ==
    KpisDone =>
        LET active == PositivatedClients(data)
            total == SumNetSkus(data, active)
        IN  /\ ~IsNaN(kpis.skuPerPdv)
            /\ kpis.skuPerPdv[1] >= 0
            /\ Cardinality(active) = 0 => kpis.skuPerPdv = <<0, 1>>
            /\ Cardinality(active) > 0 =>
                  kpis.skuPerPdv[1] * Cardinality(active) = total * kpis.skuPerPdv[2]

\* The example of the claim: a client with net +500 and 3 distinct SALE SKUs,
\* a client with net -20, positivacao 1 and skuPerPdv 3.
C3_Witness ==
    /\ KpisDone
    /\ \E c \in ClientsOf(data) :
          NetOf(data, c) = 500 /\ Cardinality(SkusOf(data, c, "VD")) = 3
    /\ \E c \in ClientsOf(data) : NetOf(data, c) = -20
    /\ kpis.positivacao = 1
    /\ kpis.skuPerPdv = <<3, 1>>

(***************************************************************************)
(* The payment-term metrics (checked under SpecTerms).                     *)
(***************************************************************************)
Used == kpis.termTotals.used

Sales == SalesOf(data)

\* The first SALE row of order o that the average-term loop does not skip.
FirstTermRow(o) ==
    LET idx == {i \in DOMAIN Sales :
                   Sales[i].orderId = o /\ Sales[i].paymentTerms # <<>> /\ Sales[i].date # <<>>}
    IN  Sales[CHOOSE i \in idx : \A j \in idx : i <= j]

\* Payment terms that hold a due date or a numeric day offset in (0, 2000).
HasValidTerm(terms) ==
    \/ Len(DateMatches(terms)) > 0
    \/ \E t \in SetOf(Split(terms, {"-", "/"})) :
          LET day == ParseInt(t) IN ~IsNaN(day) /\ day[1] > 0 /\ day[1] < 2000

\* C4: a SALE row of an order whose payment terms yield neither a valid due
\* date nor a valid day offset in (0, 2000), or whose per-order average is
\* negative, is added to neither the numerator nor the denominator of avgTerm.
C4_Excluded ==
    KpisDone =>
        \A k \in DOMAIN Used :
            /\ HasValidTerm(FirstTermRow(Used[k].orderId).paymentTerms)
            /\ RGeZero(Used[k].days)

RECURSIVE SumUsedDays(_, _)
SumUsedDays(used, k) ==
    IF k > Len(used) THEN FromInt(0)
    ELSE RAdd(RMul(used[k].days, FromInt(Sales[used[k].index].amount)),
              SumUsedDays(used, k + 1))

\* C5: the per-order day count is computed once per order id: every SALE row of
\* an order that contributes to avgTerm is weighted with the day value computed
\* at the order's first row, whatever terms or invoice date the later rows carry.
C5_OncePerOrder ==
    KpisDone =>
        /\ \A k \in DOMAIN Used :
              Used[k].days = OrderDays(FirstTermRow(Used[k].orderId))
        /\ \A j, k \in DOMAIN Used :
              Used[j].orderId = Used[k].orderId => Used[j].days = Used[k].days
        /\ kpis.termTotals.weighted = SumUsedDays(Used, 1)

\* Two contributing rows of one order, the later with terms or a date of its
\* own that would give another day value.
C5_Witness ==
    /\ KpisDone
    /\ \E j, k \in DOMAIN Used :
          /\ j < k
          /\ Used[j].orderId = Used[k].orderId
          /\ RGeZero(OrderDays(Sales[Used[k].index]))
          /\ OrderDays(Sales[Used[k].index]) # Used[k].days
    /\ kpis.avgTerm # FromInt(0)

\* The installment count of each payment-terms text of the model, by the rule
\* of the claim: the number of dd/mm/yyyy tokens if there is one, else the
\* number of non-blank tokens between '-' and '/'.
ExpectedInstallments(terms) ==
    CASE terms = <<>> -> 0
      [] terms = T30 -> 1
      [] terms = T306090 -> 3
      [] terms = TAVista -> 1
      [] terms = TDash -> 0
      [] terms = TOutOfRange -> 2
      [] terms = TDue1512 -> 1
      [] terms = TDue0110 -> 1
      [] terms = TDueTwo -> 2

InstallmentRows ==
    {i \in DOMAIN data :
        data[i].operClass = "VD" /\ ExpectedInstallments(data[i].paymentTerms) > 0}

RECURSIVE SumInstallmentsOver(_)
SumInstallmentsOver(idx) ==
    IF idx = {} THEN 0
    ELSE LET i == CHOOSE x \in idx : TRUE
         IN  ExpectedInstallments(data[i].paymentTerms) * data[i].amount
                 + SumInstallmentsOver(idx \ {i})

\* C6: avgInstallments is the amount-weighted mean of the per-row installment
\* count over the SALE rows whose terms give at least one token; rows with
\* empty terms or no token, and RETURN rows, add to neither total.  (With a
\* total weight that is not positive the code returns 0.)
C6_AvgInstallments ==
    KpisDone =>
        LET weight == SumAmountOver(data, InstallmentRows)
            weighted == SumInstallmentsOver(InstallmentRows)
        IN  /\ kpis.installmentTotals = [weighted |-> weighted, weight |-> weight]
            /\ ~IsNaN(kpis.avgInstallments)
            /\ weight > 0 => kpis.avgInstallments[1] * weight = weighted * kpis.avgInstallments[2]
            /\ weight <= 0 => kpis.avgInstallments = FromInt(0)

\* A list with a due-date row, a row without tokens and a RETURN row with
\* terms, and a mean that is no whole number.
C6_Witness ==
    /\ KpisDone
    /\ \E i \in DOMAIN data : data[i].operClass = "VD" /\ data[i].paymentTerms = TDueTwo
    /\ \E i \in DOMAIN data : data[i].operClass = "VD" /\ data[i].paymentTerms = T306090
    /\ \E i \in DOMAIN data : data[i].operClass = "DV" /\ data[i].paymentTerms = T30
    /\ kpis.avgInstallments = <<5, 2>>

\* C7: calculateKPIs is total: every metric is a number, each metric whose
\* denominator is zero is exactly 0, and on the empty list all seven are 0.
C7_Total ==
    KpisDone =>
        /\ \A m \in {kpis.averageTicket, kpis.skuPerPdv, kpis.avgInstallments, kpis.avgTerm} :
              ~IsNaN(m)
        /\ Cardinality(OrdersOfClass(data, "VD")) <= Cardinality(OrdersOfClass(data, "DV"))
              => kpis.totalOrders = 0 /\ kpis.averageTicket = FromInt(0)
        /\ PositivatedClients(data) = {}
              => kpis.positivacao = 0 /\ kpis.skuPerPdv = FromInt(0)
        /\ kpis.installmentTotals.weight = 0 => kpis.avgInstallments = FromInt(0)
        /\ kpis.termTotals.weight = 0 => kpis.avgTerm = FromInt(0)
        /\ data = <<>> =>
              /\ kpis.totalRevenue = 0
              /\ kpis.positivacao = 0
              /\ kpis.totalOrders = 0
              /\ kpis.averageTicket = FromInt(0)
              /\ kpis.skuPerPdv = FromInt(0)
              /\ kpis.avgInstallments = FromInt(0)
              /\ kpis.avgTerm = FromInt(0)

\* A list that is not empty on which all four denominators are zero, the two
\* weights by cancellation of rows that did contribute.
C7_Witness ==
    /\ KpisDone
    /\ data # <<>>
    /\ kpis.totalOrders = 0
    /\ kpis.positivacao = 0
    /\ Len(Used) > 0
    /\ kpis.installmentTotals = [weighted |-> 0, weight |-> 0]
    /\ kpis.termTotals.weight = 0
    /\ kpis.averageTicket = FromInt(0)
    /\ kpis.avgTerm = FromInt(0)

\* The two-record input of C8: a SALE row of client A, +100, terms "30-60-90",
\* and a RETURN row of client A, -100, of the same order.
IsC8Input(rows) ==
    /\ Len(rows) = 2
    /\ \E i, j \in DOMAIN rows :
          /\ rows[i].operClass = "VD" /\ rows[i].cnpj = "A" /\ rows[i].amount = 100
          /\ rows[i].paymentTerms = T306090
          /\ rows[j].operClass = "DV" /\ rows[j].cnpj = "A" /\ rows[j].amount = -100
          /\ rows[j].orderId = rows[i].orderId

\* C8: on that input totalRevenue, positivacao, totalOrders and averageTicket
\* are 0, avgInstallments is 3 and avgTerm is 60.
C8_Example ==
    KpisDone /\ IsC8Input(data) =>
        /\ kpis.totalRevenue = 0
        /\ kpis.positivacao = 0
        /\ kpis.totalOrders = 0
        /\ kpis.averageTicket = FromInt(0)
        /\ kpis.avgInstallments = FromInt(3)
        /\ kpis.avgTerm = FromInt(60)

\* The input of C8 with a RETURN row that carries payment terms of its own.
C8_Witness ==
    /\ KpisDone
    /\ IsC8Input(data)
    /\ \E j \in DOMAIN data : data[j].operClass = "DV" /\ data[j].paymentTerms = T30
    /\ kpis.avgTerm = FromInt(60)

(***************************************************************************)
(* The filter engine (checked under SpecFilter).                           *)
(***************************************************************************)
LoadFilterRow == LoadRow(FilterRows, MaxFilterRows)

FilterData ==
    /\ calls = {}
    /\ filtered' = filterData(data, filters)
    /\ calls' = calls \cup {"filterData"}
    /\ UNCHANGED <<data, filters, kpis, options, aggregates, session>>

GetCascadingOptions ==
    /\ calls = {}
    /\ options' = getCascadingOptions(data, filters)
    /\ calls' = calls \cup {"getCascadingOptions"}
    /\ UNCHANGED <<data, filters, kpis, filtered, aggregates, session>>

InitFilter == \E f \in FilterStates : InitWith(f)

NextFilter == LoadFilterRow \/ FilterData \/ GetCascadingOptions

SpecFilter == InitFilter /\ [][NextFilter]_vars

FilterDone == "filterData" \in calls

OptionsDone == "getCascadingOptions" \in calls

\* The month of a "YYYY-MM..." text as a number of months.
MonthNumber(s) ==
    12 * (1000 * DigitVal(s[1]) + 100 * DigitVal(s[2]) + 10 * DigitVal(s[3]) + DigitVal(s[4]))
        + 10 * DigitVal(s[6]) + DigitVal(s[7])

MonthInRange(record, f) ==
    /\ MonthNumber(f.startMonth) <= MonthNumber(record.date)
    /\ MonthNumber(record.date) <= MonthNumber(f.endMonth)

\* A dimension passes when its filter list is empty, holds 'all', or holds the value.
DimensionPasses(values, v) ==
    Len(values) = 0 \/ All \in SetOf(values) \/ v \in SetOf(values)

FailedPredicates(record, f) ==
    {k \in DimensionKeys : ~DimensionPasses(f[k], record[k])}
        \cup (IF MonthInRange(record, f) THEN {} ELSE {"month"})

PassSet == {i \in DOMAIN data : FailedPredicates(data[i], filters) = {}}

\* The k-th smallest element of a set of numbers.
KthSmallest(S, k) == CHOOSE i \in S : Cardinality({j \in S : j < i}) = k - 1

\* C9: filterData returns exactly the records, in input order, for which all
\* six dimensions pass and the invoice month lies in [startMonth, endMonth].
C9_FilterData ==
    FilterDone =>
        /\ Len(filtered) = Cardinality(PassSet)
        /\ \A k \in DOMAIN filtered : filtered[k] = data[KthSmallest(PassSet, k)]

\* Three records of which the middle one fails exactly one predicate and is
\* dropped, and the other two are kept in their order.
C9_Witness ==
    /\ FilterDone
    /\ Len(data) = 3
    /\ Cardinality(FailedPredicates(data[2], filters)) = 1
    /\ data[1] # data[3]
    /\ filtered = <<data[1], data[3]>>

OptionKey(k) ==
    CASE k = "division" -> "divisions" [] k = "region" -> "regions"
      [] k = "sector" -> "sectors" [] k = "salesRep" -> "reps"
      [] k = "channel" -> "channels" [] k = "supplier" -> "suppliers"

\* The values of the model's records in ascending lexical order.
Ascending ==
    << <<"A">>, <<"A", "B">>, <<"B">>, <<"J">>, <<"K">>, <<"N">>, <<"R", "1">>,
       <<"R", "2">>, <<"R", "C">>, <<"S">>, <<"W", "E", "B">>, <<"X">>, <<"Y">> >>

RankOf(v) == CHOOSE i \in DOMAIN Ascending : Ascending[i] = v

\* The records in the date range that pass every dimension's filter but k's own.
ReachableFor(k) ==
    {i \in DOMAIN data : FailedPredicates(data[i], filters) \subseteq {k}}

\* C10: for each dimension, getCascadingOptions returns exactly the distinct
\* non-empty values of the dimension among the records that lie in the date
\* range and pass every other dimension's filter, without duplicates and in
\* ascending order.
C10_CascadingOptions ==
    OptionsDone =>
        \A k \in DimensionKeys :
            LET opts == options[OptionKey(k)]
            IN  /\ SetOf(opts) = {data[i][k] : i \in ReachableFor(k)} \ {<<>>}
                /\ \A i, j \in DOMAIN opts : i < j => RankOf(opts[i]) < RankOf(opts[j])

\* A dimension whose own filter is active, offered a value its filter does not
\* hold, while another filter removes a value of it, and whose values come in
\* the records in descending order.
C10_Witness ==
    /\ OptionsDone
    /\ \E k \in DimensionKeys :
          LET opts == options[OptionKey(k)]
          IN  /\ Len(filters[k]) > 0
              /\ All \notin SetOf(filters[k])
              /\ \E v \in SetOf(opts) : v \notin SetOf(filters[k])
              /\ \E i \in DOMAIN data :
                    MonthInRange(data[i], filters) /\ data[i][k] \notin SetOf(opts)
              /\ \E i, j \in DOMAIN data :
                    /\ i < j
                    /\ data[i][k] \in SetOf(opts)
                    /\ data[j][k] \in SetOf(opts)
                    /\ RankOf(data[j][k]) < RankOf(data[i][k])

\* C11: every value that getCascadingOptions offers for a dimension, selected
\* alone in that dimension's filter with the date range and the other filters
\* unchanged, makes filterData return at least one record.
C11_OptionsNonEmpty ==
    OptionsDone =>
        \A k \in DimensionKeys :
            \A v \in SetOf(options[OptionKey(k)]) :
                filterData(data, WithFilter(filters, k, <<v>>)) # <<>>

\* A value is offered for a dimension whose filter holds another value, next
\* to an active filter of another dimension, while a record outside the date
\* range carries a value that is not offered.
C11_Witness ==
    /\ OptionsDone
    /\ \E k \in DimensionKeys :
          /\ Len(filters[k]) > 0
          /\ \E v \in SetOf(options[OptionKey(k)]) : v \notin SetOf(filters[k])
          /\ \E j \in DimensionKeys \ {k} : Len(filters[j]) > 0
    /\ \E k \in DimensionKeys : \E i \in DOMAIN data :
          /\ ~MonthInRange(data[i], filters)
          /\ data[i][k] \notin SetOf(options[OptionKey(k)])

\* C12: filterData applied to its own result with the same filter state
\* returns that result again, and the call leaves the input list as it was.
C12_Idempotent ==
    [][FilterData => /\ data' = data
                     /\ filterData(filtered', filters') = filtered']_vars

\* A call that dropped some records and kept others.
C12_Witness ==
    /\ FilterDone
    /\ filtered # <<>>
    /\ Len(filtered) < Len(data)
    /\ \E i \in DOMAIN data : \E j \in DOMAIN data :
          i < j /\ ~FilterKeeps(data[i], filters) /\ ~FilterKeeps(data[j], filters)

(***************************************************************************)
(* The aggregators: objects used as maps, sorting, and getStatsByGroup.    *)
(***************************************************************************)
\* p - q, p > 0 and p < q of JavaScript numbers.
RSub(p, q) == RAdd(p, RMul(FromInt(-1), q))

RGtZero(p) == ~IsNaN(p) /\ p[1] > 0

RLt(p, q) == RGtZero(RSub(q, p))

\* s.startsWith(prefix)
StartsWith(s, prefix) ==
    Len(s) >= Len(prefix) /\ SubSeq(s, 1, Len(prefix)) = prefix

\* An object used as a map is the list of its properties in creation order.
Has(map, key) == \E i \in DOMAIN map : map[i].key = key

\* map[key]
Get(map, key) == map[CHOOSE i \in DOMAIN map : map[i].key = key].value

\* map[key] = value: a new key is added last, a known key keeps its place.
Put(map, key, value) ==
    IF Has(map, key)
    THEN [i \in DOMAIN map |->
             IF map[i].key = key THEN [key |-> key, value |-> value] ELSE map[i]]
    ELSE Append(map, [key |-> key, value |-> value])

\* Object.entries(map): the keys that are array indices (canonical numbers up
\* to 2^32 - 2) in ascending numeric order, then the other keys in creation order.
ObjectEntries(map) ==
    LET MaxArrayIndex == <<"4", "2", "9", "4", "9", "6", "7", "2", "9", "4">>
        IsArrayIndex(key) ==
            /\ key # <<>>
            /\ \A i \in DOMAIN key : key[i] \in Digits
            /\ Len(key) = 1 \/ key[1] # "0"
            /\ Len(key) < Len(MaxArrayIndex)
                  \/ (Len(key) = Len(MaxArrayIndex) /\ StrLe(key, MaxArrayIndex))
        IndexLt(a, b) == Len(a) < Len(b) \/ (Len(a) = Len(b) /\ StrLt(a, b))
        RECURSIVE InsertIndex(_, _)
        InsertIndex(sorted, e) ==
            IF sorted = <<>> THEN <<e>>
            ELSE IF IndexLt(e.key, Head(sorted).key) THEN <<e>> \o sorted
            ELSE <<Head(sorted)>> \o InsertIndex(Tail(sorted), e)
        RECURSIVE SortIndices(_)
        SortIndices(entries) ==
            IF entries = <<>> THEN <<>>
            ELSE InsertIndex(SortIndices(Tail(entries)), Head(entries))
    IN  SortIndices(SelectRows(map, {i \in DOMAIN map : IsArrayIndex(map[i].key)}))
            \o SelectRows(map, {i \in DOMAIN map : ~IsArrayIndex(map[i].key)})

\* Object.values(map)
ObjectValues(map) == [i \in DOMAIN map |-> ObjectEntries(map)[i].value]

\* items.sort((a, b) => b.key - a.key), keys[i] being the key of items[i]: a
\* stable sort, each position placed behind every position whose key is not
\* smaller.
SortDesc(items, keys) ==
    LET RECURSIVE InsertDesc(_, _)
        InsertDesc(order, i) ==
            IF order = <<>> THEN <<i>>
            ELSE IF RLt(keys[Head(order)], keys[i]) THEN <<i>> \o order
            ELSE <<Head(order)>> \o InsertDesc(Tail(order), i)
        RECURSIVE OrderDesc(_)
        OrderDesc(n) == IF n = 0 THEN <<>> ELSE InsertDesc(OrderDesc(n - 1), n)
        order == OrderDesc(Len(items))
    IN  [k \in DOMAIN items |-> items[order[k]]]

\* items.sort((a, b) => b.revenue - a.revenue)
SortByRevenue(items) ==
    SortDesc(items, [i \in DOMAIN items |-> FromInt(items[i].revenue)])

M202508 == <<"2", "0", "2", "5", "-", "0", "8">>
M202511 == <<"2", "0", "2", "5", "-", "1", "1">>

NA == <<"N", "/", "A">>
Undefined == <<"u", "n", "d", "e", "f", "i", "n", "e", "d">>

\* records.filter(r => r.date.startsWith(month))
MonthRecords(records, month) ==
    SelectRows(records, {i \in DOMAIN records : StartsWith(records[i].date, month)})

\* A faulty variant of SkipsKey: only the key 'N/A' is skipped.
SkipsKeyNAOnly(key) == key = NA

\* !key || key === 'N/A' || key === 'undefined'
SkipsKey(key) == key = <<>> \/ key = NA \/ key = Undefined

\* data.forEach(r => ...) of getStatsByGroup, from row i on.
RECURSIVE GroupsFrom(_, _, _, _)
GroupsFrom(rows, groupKey, i, groups) ==
    IF i > Len(rows) THEN groups
    ELSE LET r == rows[i]
             key == r[groupKey]
             old == IF Has(groups, key) THEN Get(groups, key)
                    ELSE [records |-> <<>>, name |-> key, region |-> r.region,
                          sector |-> r.sector]
             named == IF r.companyName # <<>> /\ key = r.cnpj
                      THEN [old EXCEPT !.name = r.companyName] ELSE old
         IN  IF SkipsKey(key) THEN GroupsFrom(rows, groupKey, i + 1, groups)
             ELSE GroupsFrom(rows, groupKey, i + 1,
                      Put(groups, key, [named EXCEPT !.records = Append(@, r)]))

\* let revenueTrend = 0; if (avgPastRevenue > 0) ... else if (currentRevenue > 0) ...
RevenueTrend(currentRevenue, avgPastRevenue) ==
    IF RGtZero(avgPastRevenue)
    THEN RMul(RDiv(RSub(FromInt(currentRevenue), avgPastRevenue), avgPastRevenue),
              FromInt(100))
    ELSE IF currentRevenue > 0 THEN FromInt(100) ELSE FromInt(0)

\* The EntityStats of one group, with the records of the group.
\* The entity of one group, from the statistics of its records of 2025-08,
\* 2025-09, 2025-10 and 2025-11, in this order.
EntityWith(id, group, stats) ==
    LET novStats == stats[4]
        augRev == stats[1].totalRevenue
        sepRev == stats[2].totalRevenue
        octRev == stats[3].totalRevenue
        avgPastRevenue == Ratio(augRev + sepRev + octRev, 3)
        currentRevenue == novStats.totalRevenue
    IN  [id |-> id, name |-> group.name, revenue |-> currentRevenue,
         averagePastRevenue |-> avgPastRevenue,
         revenueTrend |-> RevenueTrend(currentRevenue, avgPastRevenue),
         currentRevenue |-> currentRevenue, orders |-> novStats.totalOrders,
         skuPerPdv |-> novStats.skuPerPdv, avgTicket |-> novStats.averageTicket,
         avgInstallments |-> novStats.avgInstallments, avgTerm |-> novStats.avgTerm,
         region |-> group.region, sector |-> group.sector, records |-> group.records]

EntityOf(id, group) ==
    EntityWith(id, group,
        [m \in 1..4 |->
            calculateStatsInternal(
                MonthRecords(group.records, <<M202508, M202509, M202510, M202511>>[m]))])

getStatsByGroup(rows, groupKey) ==
    LET entries == ObjectEntries(GroupsFrom(rows, groupKey, 1, <<>>))
    IN  SortByRevenue([i \in DOMAIN entries |-> EntityOf(entries[i].key, entries[i].value)])

getNetworkStats(rows) == getStatsByGroup(rows, "networkName")

getClientStats(rows) == getStatsByGroup(rows, "cnpj")

getRepStats(rows) == getStatsByGroup(rows, "salesRep")

\* Each supplier's entity with the number of its SKUs sold in 2025-11.
WithSkuCount(rows, stats) ==
    LET suppRecords(s) ==
            SelectRows(rows, {i \in DOMAIN rows :
                /\ rows[i].supplier = s.id
                /\ rows[i].operClass = "VD"
                /\ StartsWith(rows[i].date, M202511)})
        skuCount(s) == Cardinality({r.productCode : r \in SetOf(suppRecords(s))})
    IN  SortByRevenue([i \in DOMAIN stats |->
            [k \in DOMAIN stats[i] \cup {"skuCount"} |->
                IF k = "skuCount" THEN skuCount(stats[i]) ELSE stats[i][k]]])

getSupplierStats(rows) == WithSkuCount(rows, getStatsByGroup(rows, "supplier"))

(***************************************************************************)
(* The entity aggregators (checked under SpecEntity).                      *)
(***************************************************************************)
MaxEntityRows == 3

\* The fields of a SaleRecord that the filter engine and the KPIs do not read.
SaleRecord(row, companyName, networkName, productDesc, quantity, city, state) ==
    row @@ [companyName |-> companyName, networkName |-> networkName,
            productDesc |-> productDesc, quantity |-> quantity,
            city |-> city, state |-> state]

Oct10 == <<"2", "0", "2", "5", "-", "1", "0", "-", "1", "0">>

\* A record that differs only in the fields the entity aggregators read.
EntityRow(cnpj, companyName, networkName, supplier, salesRep, date, operClass, amount, orderId) ==
    SaleRecord(Row(<<"N">>, <<"R", "1">>, <<"A">>, salesRep, <<"R", "C">>, supplier, date,
                   cnpj, "P1", amount, orderId, operClass, T30),
               companyName, networkName, <<"P">>, 1, <<>>, <<>>)

Alfa == <<"A", "l", "f", "a">>
Beta == <<"B", "e", "t", "a">>

EntityRows ==
    { EntityRow(<<"A">>, Alfa, <<"R", "1">>, <<"X">>, <<"J">>, Aug10, "VD", 300, "O1"),
      EntityRow(<<"A">>, Alfa, <<"R", "1">>, <<"X">>, <<"J">>, Aug10, "DV", -300, "O1"),
      EntityRow(<<"A">>, Alfa, <<"R", "1">>, <<"X">>, <<"J">>, Nov15, "VD", 100, "O2"),
      EntityRow(<<"A">>, Alfa, <<"R", "1">>, <<"X">>, <<"J">>, Nov15, "DV", -100, "O2"),
      EntityRow(<<"B">>, Beta, <<"R", "1">>, <<"Y">>, <<"K">>, Sep10, "VD", 600, "O3"),
      EntityRow(<<"B">>, Beta, <<"R", "1">>, <<"Y">>, <<"K">>, Oct10, "DV", -600, "O3"),
      EntityRow(<<"B">>, Beta, <<"R", "1">>, <<"Y">>, <<"K">>, Nov15, "VD", 400, "O4"),
      EntityRow(<<"7">>, Beta, NA, Undefined, NA, Nov15, "VD", 100, "O5"),
      EntityRow(Undefined, Alfa, Undefined, NA, Undefined, Nov15, "VD", 200, "O6") }

LoadEntityRow == LoadRow(EntityRows, MaxEntityRows)

\* One call of an entity aggregator on the loaded records.
GetStats(name, stats) ==
    /\ calls = {}
    /\ entityStats' = stats
    /\ calls' = calls \cup {name}
    /\ UNCHANGED <<data, filters, kpis, filtered, options, productStats, pivotData,
                   pivotTable, geoStats, cityCoordsCache,
                   session>>

GetClientStats == GetStats("getClientStats", getClientStats(data))

GetNetworkStats == GetStats("getNetworkStats", getNetworkStats(data))

GetSupplierStats == GetStats("getSupplierStats", getSupplierStats(data))

GetRepStats == GetStats("getRepStats", getRepStats(data))

NextEntity ==
    LoadEntityRow \/ GetClientStats \/ GetNetworkStats \/ GetSupplierStats \/ GetRepStats

SpecEntity == InitKpi /\ [][NextEntity]_vars

EntityCalls == {"getClientStats", "getNetworkStats", "getSupplierStats", "getRepStats"}

EntityDone == calls \cap EntityCalls # {}

\* The field an entity aggregator groups by.
GroupKeyOf(name) ==
    CASE name = "getClientStats" -> "cnpj" [] name = "getNetworkStats" -> "networkName"
      [] name = "getSupplierStats" -> "supplier" [] name = "getRepStats" -> "salesRep"

\* The field the call of this run grouped by.
GroupKey == GroupKeyOf(CHOOSE name \in EntityCalls : name \in calls)

\* The positions of the loaded records of an entity in a set of months.
RowsOfEntity(id, months) ==
    {i \in DOMAIN data : data[i][GroupKey] = id /\ MonthNumber(data[i].date) \in months}

Nov2025 == MonthNumber(M202511)

ClosedMonths == {MonthNumber(M202508), MonthNumber(M202509), MonthNumber(M202510)}

\* C13: each entity's revenueTrend is (current - baseline) / baseline * 100 for
\* every non-zero baseline, positive or negative, 100 for a zero baseline and a
\* positive current revenue, and 0 when both are zero; current is the revenue
\* of 2025-11 and baseline the mean of the revenues of 2025-08, -09 and -10.
C13_RevenueTrend ==
    EntityDone =>
        \A k \in DOMAIN entityStats :
            LET e == entityStats[k]
                current == SumAmountOver(data, RowsOfEntity(e.id, {Nov2025}))
                past == SumAmountOver(data, RowsOfEntity(e.id, ClosedMonths))
            IN  /\ past # 0 =>
                     e.revenueTrend = Ratio((3 * current - past) * 100, past)
                /\ past = 0 /\ current > 0 => e.revenueTrend = FromInt(100)
                /\ past = 0 /\ current = 0 => e.revenueTrend = FromInt(0)

UnknownKeys == {<<>>, NA, Undefined}

\* C14: an entity aggregator returns one entity per key that is not '', 'N/A'
\* or 'undefined' and none for those keys; the records of an entity are exactly
\* the loaded records with its key, so a record with an unknown key is in no
\* group and every other record is in the group of its key alone; the list is
\* in descending order of the revenue of 2025-11.
C14_Grouping ==
    EntityDone =>
        /\ \A k \in DOMAIN entityStats : entityStats[k].id \notin UnknownKeys
        /\ \A k, j \in DOMAIN entityStats :
              entityStats[k].id = entityStats[j].id => k = j
        /\ {entityStats[k].id : k \in DOMAIN entityStats}
              = {data[i][GroupKey] : i \in DOMAIN data} \ UnknownKeys
        /\ \A k \in DOMAIN entityStats :
              LET e == entityStats[k]
              IN  /\ Len(e.records) = Cardinality({i \in DOMAIN data : data[i][GroupKey] = e.id})
                  /\ \A n \in DOMAIN e.records :
                        e.records[n] =
                            data[KthSmallest({i \in DOMAIN data : data[i][GroupKey] = e.id}, n)]
                  /\ e.revenue = SumAmountOver(data, RowsOfEntity(e.id, {Nov2025}))
        /\ \A k, j \in DOMAIN entityStats :
              k < j => entityStats[k].revenue >= entityStats[j].revenue

\* A record with an unknown key is loaded next to two entities, and the
\* entity met first in the records has the smaller revenue and comes second.
C14_Witness ==
    /\ EntityDone
    /\ \E i \in DOMAIN data : data[i][GroupKey] \in UnknownKeys
    /\ Len(entityStats) = 2
    /\ entityStats[1].revenue > entityStats[2].revenue
    /\ \E i, j \in DOMAIN data :
          /\ i < j
          /\ data[i][GroupKey] = entityStats[2].id
          /\ data[j][GroupKey] = entityStats[1].id

(***************************************************************************)
(* getProductStats (checked under SpecProduct).                            *)
(***************************************************************************)
MaxProductRows == 3

\* A faulty variant of NetQuantity: the quantity is taken with the sign it has.
NetQuantityRaw(r) == r.quantity

\* const qty = r.operClass === 'DV' ? -qtyAbs : qtyAbs
NetQuantity(r) == IF r.operClass = "DV" THEN -Abs(r.quantity) ELSE Abs(r.quantity)

\* novData.forEach(r => ...) of getProductStats, from row i on.
RECURSIVE ProductsFrom(_, _, _)
ProductsFrom(novData, i, map) ==
    IF i > Len(novData) THEN map
    ELSE LET r == novData[i]
             old == IF Has(map, r.productCode) THEN Get(map, r.productCode)
                    ELSE [code |-> r.productCode, desc |-> r.productDesc, revenue |-> 0,
                          quantity |-> 0, supplier |-> r.supplier, division |-> r.division,
                          uniqueClients |-> {}, uniqueOrders |-> {},
                          clientCount |-> 0, orderCount |-> 0]
             sold == r.operClass = "VD"
         IN  ProductsFrom(novData, i + 1,
                 Put(map, r.productCode,
                     [old EXCEPT !.revenue = @ + r.amount,
                                 !.quantity = @ + NetQuantity(r),
                                 !.uniqueClients = IF sold THEN @ \cup {r.cnpj} ELSE @,
                                 !.uniqueOrders = IF sold THEN @ \cup {r.orderId} ELSE @]))

getProductStats(rows) ==
    LET values == ObjectValues(ProductsFrom(MonthRecords(rows, M202511), 1, <<>>))
    IN  SortByRevenue([i \in DOMAIN values |->
            [values[i] EXCEPT !.clientCount = Cardinality(values[i].uniqueClients),
                              !.orderCount = Cardinality(values[i].uniqueOrders)]])

\* A record that differs only in the fields getProductStats reads.
ProductRow(productCode, date, operClass, amount, quantity, cnpj, orderId) ==
    SaleRecord(Row(<<"N">>, <<"R", "1">>, <<"A">>, <<"J">>, <<"R", "C">>, <<"X">>, date,
                   cnpj, productCode, amount, orderId, operClass, T30),
               Alfa, NA, <<"P">>, quantity, <<>>, <<>>)

ProductRows ==
    { ProductRow(<<"P", "1">>, Nov15, "VD", 100, 5, "A", "O1"),
      ProductRow(<<"P", "1">>, Nov15, "DV", -100, -2, "A", "O1"),
      ProductRow(<<"P", "1">>, Nov15, "DV", -40, 3, "B", "O2"),
      ProductRow(<<"P", "1">>, Nov15, "VD", 100, -5, "B", "O3"),
      ProductRow(<<"P", "1">>, Sep10, "VD", 500, 9, "C", "O4"),
      ProductRow(<<"2", "0">>, Nov15, "VD", 300, 1, "B", "O2"),
      ProductRow(<<"2", "0">>, Nov15, "DV", -300, 1, "B", "O2"),
      ProductRow(<<"3">>, Nov15, "VD", 300, 4, "A", "O1") }

LoadProductRow == LoadRow(ProductRows, MaxProductRows)

GetProductStats ==
    /\ calls = {}
    /\ productStats' = getProductStats(data)
    /\ calls' = calls \cup {"getProductStats"}
    /\ UNCHANGED <<data, filters, kpis, filtered, options, entityStats, pivotData,
                   pivotTable, geoStats, cityCoordsCache,
                   session>>

NextProduct == LoadProductRow \/ GetProductStats

SpecProduct == InitKpi /\ [][NextProduct]_vars

ProductsDone == "getProductStats" \in calls

\* The positions of the loaded records of 2025-11 with a product code and a class.
RowsOfProduct(code, class) ==
    {i \in DOMAIN data : /\ MonthNumber(data[i].date) = Nov2025
                         /\ data[i].productCode = code
                         /\ data[i].operClass = class}

\* The sum of |quantity| over a set of positions of the loaded records.
RECURSIVE SumAbsQuantity(_)
SumAbsQuantity(idx) ==
    IF idx = {} THEN 0
    ELSE LET i == CHOOSE j \in idx : TRUE
         IN  Abs(data[i].quantity) + SumAbsQuantity(idx \ {i})

\* C15: getProductStats returns one product per product code of the records of
\* 2025-11 and reads no other record; its revenue is the signed sum of the
\* amounts, its quantity the sum of |quantity| over the SALE rows minus that
\* over the RETURN rows, its clientCount and orderCount the numbers of distinct
\* clients and orders of its SALE rows; the list is in descending order of
\* revenue.
C15_ProductStats ==
    ProductsDone =>
        /\ {productStats[k].code : k \in DOMAIN productStats}
              = {data[i].productCode :
                    i \in {j \in DOMAIN data : MonthNumber(data[j].date) = Nov2025}}
        /\ \A k, j \in DOMAIN productStats :
              productStats[k].code = productStats[j].code => k = j
        /\ \A k \in DOMAIN productStats :
              LET p == productStats[k]
                  sales == RowsOfProduct(p.code, "VD")
                  returns == RowsOfProduct(p.code, "DV")
              IN  /\ p.revenue = SumAmountOver(data, sales \cup returns)
                  /\ p.quantity = SumAbsQuantity(sales) - SumAbsQuantity(returns)
                  /\ p.clientCount = Cardinality({data[i].cnpj : i \in sales})
                  /\ p.orderCount = Cardinality({data[i].orderId : i \in sales})
        /\ \A k, j \in DOMAIN productStats :
              k < j => productStats[k].revenue >= productStats[j].revenue

\* Two products, the one met first with the smaller revenue and listed second;
\* it has a SALE row and a RETURN row of a client and an order that bought
\* none of it, so both of its counts are 1.
C15_Witness ==
    /\ ProductsDone
    /\ Len(productStats) = 2
    /\ productStats[1].revenue > productStats[2].revenue
    /\ data[1].productCode = productStats[2].code
    /\ productStats[2].clientCount = 1
    /\ productStats[2].orderCount = 1
    /\ \E i \in RowsOfProduct(productStats[2].code, "DV") :
          \A j \in RowsOfProduct(productStats[2].code, "VD") :
              data[i].cnpj # data[j].cnpj /\ data[i].orderId # data[j].orderId

(***************************************************************************)
(* getSectorPivotData and the pivot table of App.tsx (checked under        *)
(* SpecPivot).                                                             *)
(***************************************************************************)
MaxPivotRows == 3

MetricKeys ==
    <<"totalRevenue", "positivacao", "totalOrders", "averageTicket", "skuPerPdv",
      "avgInstallments", "avgTerm">>

\* stats[key] as a number: the three counts are integers, the four ratios rationals.
MetricOf(stats, key) ==
    IF key \in {"totalRevenue", "positivacao", "totalOrders"}
    THEN FromInt(stats[key]) ELSE stats[key]

\* A faulty variant of closedMonths: the current month is averaged too.
closedMonthsAndCurrent == <<M202508, M202509, M202510, M202511>>

closedMonths == <<M202508, M202509, M202510>>

\* monthTotals / monthStats: the KPIStats of the records of each month of the list.
StatsByMonth(months, records) ==
    [i \in DOMAIN months |->
        [key |-> months[i], value |-> calculateStatsInternal(MonthRecords(records, months[i]))]]

\* calculateAverageOfMonths(monthDataMap)
calculateAverageOfMonths(monthDataMap) ==
    LET RECURSIVE SumFrom(_, _)
        SumFrom(key, i) ==
            IF i > Len(closedMonths) THEN FromInt(0)
            ELSE RAdd(IF Has(monthDataMap, closedMonths[i])
                      THEN MetricOf(Get(monthDataMap, closedMonths[i]), key)
                      ELSE FromInt(0),
                      SumFrom(key, i + 1))
    IN  [key \in SetOf(MetricKeys) |-> RDiv(SumFrom(key, 1), FromInt(3))]

\* One row of the pivot: a sector, its statistics by month and their average.
SectorRow(sector, monthStats) ==
    [sector |-> sector, months |-> monthStats, total |-> calculateAverageOfMonths(monthStats)]

\* The pivot of the sector rows, the months and the statistics of each month.
PivotOf(unsorted, months, monthTotals) ==
    [rows |-> SortDesc(unsorted, [i \in DOMAIN unsorted |-> unsorted[i].total.totalRevenue]),
     months |-> months, monthTotals |-> monthTotals,
     grandTotal |-> calculateAverageOfMonths(monthTotals)]

\* The months of the records in ascending order.
MonthsOf(rows) ==
    SortStrings(Dedupe([i \in DOMAIN rows |-> Substring(rows[i].date, 0, 7)], 1))

\* The sector rows of the records, in the ascending order of the sector names.
SectorRows(rows, months, sectors) ==
    [i \in DOMAIN sectors |->
        SectorRow(sectors[i],
            StatsByMonth(months,
                SelectRows(rows, {j \in DOMAIN rows : rows[j].sector = sectors[i]})))]

getSectorPivotData(rows) ==
    PivotOf(SectorRows(rows, MonthsOf(rows),
                       SortStrings(Dedupe([i \in DOMAIN rows |-> rows[i].sector], 1))),
            MonthsOf(rows), StatsByMonth(MonthsOf(rows), rows))

\* value || 0 on a number: NaN and 0 give 0.
OrZero(value) == IF IsNaN(value) THEN FromInt(0) ELSE value

\* The sum of a list of numbers: reduce((a, b) => a + b, 0).
RECURSIVE SumOf(_)
SumOf(values) ==
    IF values = <<>> THEN FromInt(0) ELSE RAdd(Head(values), SumOf(Tail(values)))

monthKeys == <<M202508, M202509, M202510, M202511>>

\* A faulty variant of isRatioMetric: every metric is summed.
isRatioMetricNever(dataKey) == FALSE

isRatioMetric(dataKey) ==
    dataKey \in {"skuPerPdv", "averageTicket", "avgTerm", "avgInstallments"}

\* The total of a column of values over the displayed rows.
ColumnTotal(valuesInColumn, dataKey) ==
    IF Len(valuesInColumn) = 0 THEN FromInt(0)
    ELSE IF isRatioMetric(dataKey)
         THEN RDiv(SumOf(valuesInColumn), FromInt(Len(valuesInColumn)))
         ELSE SumOf(valuesInColumn)

\* The rows and the totals row that KPIPivotTable renders for a metric.
KPIPivotTable(pivot, dataKey) ==
    LET sortedRows ==
            SortDesc(pivot.rows, [i \in DOMAIN pivot.rows |-> OrZero(pivot.rows[i].total[dataKey])])
        cell(row, mKey) ==
            IF Has(row.months, mKey) THEN OrZero(MetricOf(Get(row.months, mKey), dataKey))
            ELSE FromInt(0)
        calculateColumnTotal(mKey) ==
            ColumnTotal([i \in DOMAIN sortedRows |-> cell(sortedRows[i], mKey)], dataKey)
        calculateGrandTotal ==
            ColumnTotal([i \in DOMAIN sortedRows |-> OrZero(sortedRows[i].total[dataKey])], dataKey)
    IN  [dataKey |-> dataKey, sortedRows |-> sortedRows,
         columnTotals |-> [i \in DOMAIN monthKeys |->
                              [key |-> monthKeys[i], value |-> calculateColumnTotal(monthKeys[i])]],
         grandTotal |-> calculateGrandTotal]

\* A record that differs only in the fields the pivot reads.
PivotRow(sector, date, operClass, amount, orderId, cnpj, paymentTerms) ==
    SaleRecord(Row(<<"N">>, <<"R", "1">>, sector, <<"J">>, <<"R", "C">>, <<"X">>, date,
                   cnpj, "P1", amount, orderId, operClass, paymentTerms),
               Alfa, NA, <<"P">>, 1, <<>>, <<>>)

PivotRows ==
    { PivotRow(<<"A">>, Aug10, "VD", 300, "O1", "A", T30),
      PivotRow(<<"A">>, Sep10, "VD", 600, "O2", "B", T306090),
      PivotRow(<<"A">>, Nov15, "VD", 900, "O3", "A", T30),
      PivotRow(<<"B">>, Aug10, "VD", 600, "O4", "C", T306090),
      PivotRow(<<"B">>, Oct10, "DV", -300, "O4", "C", <<>>),
      PivotRow(<<"B">>, Nov15, "VD", 100, "O5", "C", T30),
      PivotRow(<<"C">>, Nov15, "VD", 100, "O6", "D", T30) }

LoadPivotRow == LoadRow(PivotRows, MaxPivotRows)

GetSectorPivotData ==
    /\ calls = {}
    /\ pivotData' = getSectorPivotData(data)
    /\ calls' = calls \cup {"getSectorPivotData"}
    /\ UNCHANGED <<data, filters, kpis, filtered, options, entityStats, productStats,
                   pivotTable, geoStats, cityCoordsCache,
                   session>>

\* One of the seven tables of the pivot is rendered from the pivot data.
RenderPivotTable ==
    /\ calls = {"getSectorPivotData"}
    /\ \E dataKey \in SetOf(MetricKeys) : pivotTable' = KPIPivotTable(pivotData, dataKey)
    /\ calls' = calls \cup {"KPIPivotTable"}
    /\ UNCHANGED <<data, filters, kpis, filtered, options, entityStats, productStats,
                   pivotData, geoStats, cityCoordsCache,
                   session>>

NextPivot == LoadPivotRow \/ GetSectorPivotData \/ RenderPivotTable

SpecPivot == InitKpi /\ [][NextPivot]_vars

PivotDone == "getSectorPivotData" \in calls

TableDone == "KPIPivotTable" \in calls

\* The positions of the loaded records of a sector in a month.
SectorMonth(sector, month) ==
    {i \in DOMAIN data : /\ data[i].sector = sector
                         /\ MonthNumber(data[i].date) = MonthNumber(month)}

\* The months that some loaded record lies in.
MonthsOfData == {MonthNumber(data[i].date) : i \in DOMAIN data}

\* The value of a metric of a pivot row in a month: 0 for a month without data.
ValueIn(row, month, key) ==
    IF MonthNumber(month) \in MonthsOfData THEN MetricOf(Get(row.months, month), key)
    ELSE FromInt(0)

\* C16: for every sector row of getSectorPivotData and each of the seven
\* metrics, the row's total is the sum of its values of 2025-08, 2025-09 and
\* 2025-10 divided by 3, a month without data counting 0 and no other month
\* counting; the row's value of a month is the KPI of the sector's records of
\* that month; the rows are in descending order of the averaged revenue.
C16_RowAverage ==
    PivotDone =>
        /\ {pivotData.rows[k].sector : k \in DOMAIN pivotData.rows}
              = {data[i].sector : i \in DOMAIN data}
        /\ \A k \in DOMAIN pivotData.rows :
              LET row == pivotData.rows[k]
              IN  /\ \A key \in SetOf(MetricKeys) :
                        row.total[key] =
                            RDiv(RAdd(RAdd(ValueIn(row, M202508, key),
                                           ValueIn(row, M202509, key)),
                                      ValueIn(row, M202510, key)),
                                 FromInt(3))
                  /\ \A i \in DOMAIN row.months :
                        /\ MonthNumber(row.months[i].key) \in MonthsOfData
                        /\ row.months[i].value =
                              calculateStatsInternal(
                                  SelectRows(data, SectorMonth(row.sector, row.months[i].key)))
                  /\ row.total.totalRevenue =
                        Ratio(SumAmountOver(data,
                                  SectorMonth(row.sector, M202508)
                                      \cup SectorMonth(row.sector, M202509)
                                      \cup SectorMonth(row.sector, M202510)), 3)
        /\ \A k, j \in DOMAIN pivotData.rows :
              k < j => ~RLt(pivotData.rows[k].total.totalRevenue,
                            pivotData.rows[j].total.totalRevenue)

\* Two sectors with records of 2025-08 and of 2025-11 only: the months -09 and
\* -10 are absent, the first row's average is a third of its revenue of -08
\* although it is not the first sector in name order, and the revenue of
\* 2025-11 of a row is not counted.
C16_Witness ==
    /\ PivotDone
    /\ MonthsOfData = {MonthNumber(M202508), Nov2025}
    /\ Len(pivotData.rows) = 2
    /\ StrLt(pivotData.rows[2].sector, pivotData.rows[1].sector)
    /\ RLt(pivotData.rows[2].total.totalRevenue, pivotData.rows[1].total.totalRevenue)
    /\ \E k \in DOMAIN pivotData.rows :
          /\ SectorMonth(pivotData.rows[k].sector, M202511) # {}
          /\ RGtZero(pivotData.rows[k].total.totalRevenue)

\* The sum of the first n numbers of a list.
RECURSIVE TotalOf(_, _)
TotalOf(values, n) ==
    IF n = 0 THEN FromInt(0) ELSE RAdd(TotalOf(values, n - 1), values[n])

\* The total the table shows for a list of one value per displayed row.
ExpectedTotal(values, dataKey) ==
    IF Len(values) = 0 THEN FromInt(0)
    ELSE IF dataKey \in {"averageTicket", "skuPerPdv", "avgTerm", "avgInstallments"}
         THEN RDiv(TotalOf(values, Len(values)), FromInt(Len(values)))
         ELSE TotalOf(values, Len(values))

\* C17: in the totals row of a pivot table, the total of each month column is
\* the mean over all displayed rows for a ratio metric (a row without a value
\* in the month counting 0 and counting in the divisor) and the sum for an
\* additive metric; the grand total is the same mean or sum of the rows'
\* three-month averages; without rows every total is 0.
C17_Totals ==
    TableDone =>
        LET rows == pivotTable.sortedRows
            key == pivotTable.dataKey
        IN  /\ SetOf(rows) = SetOf(pivotData.rows)
            /\ Len(rows) = Len(pivotData.rows)
            /\ \A m \in DOMAIN monthKeys :
                  /\ pivotTable.columnTotals[m].key = monthKeys[m]
                  /\ pivotTable.columnTotals[m].value =
                        ExpectedTotal([k \in DOMAIN rows |-> ValueIn(rows[k], monthKeys[m], key)],
                                      key)
            /\ pivotTable.grandTotal =
                  ExpectedTotal([k \in DOMAIN rows |-> rows[k].total[key]], key)
            /\ rows = <<>> =>
                  /\ pivotTable.grandTotal = FromInt(0)
                  /\ \A m \in DOMAIN monthKeys : pivotTable.columnTotals[m].value = FromInt(0)

\* A table of a ratio metric with two rows, one of which has no value in a
\* month where the other has one: the column total is half of that value.
C17_Witness ==
    /\ TableDone
    /\ pivotTable.dataKey = "averageTicket"
    /\ Len(pivotTable.sortedRows) = 2
    /\ \E m \in DOMAIN monthKeys : \E k, j \in DOMAIN pivotTable.sortedRows :
          LET here == ValueIn(pivotTable.sortedRows[k], monthKeys[m], "averageTicket")
              there == ValueIn(pivotTable.sortedRows[j], monthKeys[m], "averageTicket")
          IN  /\ RGtZero(here)
              /\ there = FromInt(0)
              /\ pivotTable.columnTotals[m].value = RDiv(here, FromInt(2))
    /\ RGtZero(pivotTable.grandTotal)

(***************************************************************************)
(* The gazetteer, getCityCoords and getGeoStats (checked under SpecGeo).   *)
(***************************************************************************)
\* Five entries of the gazetteer, in the order they have in it: a city, a
\* name that two states have, a name that begins like another, the spec's
\* example.
RAW_CITIES_CSV ==
    <<"P", "R", ",", "C", "U", "R", "I", "T", "I", "B", "A", ",", "-", "2", "5", ".", "4", "1", "9", "5", ",", "-", "4", "9", ".", "2", "6", "4", "6">>
        \o <<"|">> \o <<"P", "R", ",", "P", "A", "L", "M", "I", "T", "A", "L", ",", "-", "2", "4", ".", "8", "8", "5", "3", ",", "-", "5", "2", ".", "2", "0", "2", "9">>
        \o <<"|">> \o <<"S", "C", ",", "C", "U", "R", "I", "T", "I", "B", "A", "N", "O", "S", ",", "-", "2", "7", ".", "2", "8", "2", "4", ",", "-", "5", "0", ".", "5", "8", "1", "6">>
        \o <<"|">> \o <<"S", "P", ",", "P", "A", "L", "M", "I", "T", "A", "L", ",", "-", "2", "2", ".", "7", "8", "5", "8", ",", "-", "5", "0", ".", "2", "1", "8">>
        \o <<"|">> \o <<"S", "P", ",", "S", "A", "O", " ", "P", "A", "U", "L", "O", ",", "-", "2", "3", ".", "5", "3", "2", "9", ",", "-", "4", "6", ".", "6", "3", "9", "5">>

\* The letters with a diacritic that the model's city names use, each with its
\* capital, its base letter and its combining mark (the mark is named by its
\* code point).
Accented ==
    << [lower |-> "ã", upper |-> "Ã", base |-> "A", mark |-> "U+0303"],
       [lower |-> "á", upper |-> "Á", base |-> "A", mark |-> "U+0301"],
       [lower |-> "â", upper |-> "Â", base |-> "A", mark |-> "U+0302"],
       [lower |-> "é", upper |-> "É", base |-> "E", mark |-> "U+0301"],
       [lower |-> "í", upper |-> "Í", base |-> "I", mark |-> "U+0301"],
       [lower |-> "ó", upper |-> "Ó", base |-> "O", mark |-> "U+0301"],
       [lower |-> "õ", upper |-> "Õ", base |-> "O", mark |-> "U+0303"],
       [lower |-> "ú", upper |-> "Ú", base |-> "U", mark |-> "U+0301"],
       [lower |-> "ç", upper |-> "Ç", base |-> "C", mark |-> "U+0327"] >>

\* s.toUpperCase()
toUpperCase(s) ==
    [i \in DOMAIN s |->
        IF \E k \in DOMAIN Lower : Lower[k] = s[i]
        THEN Upper[CHOOSE k \in DOMAIN Lower : Lower[k] = s[i]]
        ELSE IF \E k \in DOMAIN Accented : Accented[k].lower = s[i]
        THEN Accented[CHOOSE k \in DOMAIN Accented : Accented[k].lower = s[i]].upper
        ELSE s[i]]

\* s.normalize("NFD"): a letter with a diacritic becomes its base letter
\* followed by the combining mark.
RECURSIVE normalizeNFD(_)
normalizeNFD(s) ==
    IF s = <<>> THEN <<>>
    ELSE LET c == Head(s)
             ups == {k \in DOMAIN Accented : Accented[k].upper = c}
             lows == {k \in DOMAIN Accented : Accented[k].lower = c}
             a == Accented[CHOOSE k \in ups \cup lows : TRUE]
             base == IF ups # {} THEN a.base
                     ELSE Lower[CHOOSE k \in DOMAIN Upper : Upper[k] = a.base]
         IN  (IF ups \cup lows = {} THEN <<c>> ELSE <<base, a.mark>>)
                 \o normalizeNFD(Tail(s))

\* A faulty variant of RemoveMarks: the combining marks stay.
RemoveMarksNever(s) == s

\* s.replace(/[̀-ͯ]/g, "")
RemoveMarks(s) ==
    SelectRows(s, {i \in DOMAIN s : s[i] \notin {Accented[k].mark : k \in DOMAIN Accented}})

\* s.replace(/c.*/, ''): s up to its first c.
CutAt(s, c) == Split(s, {c})[1]

\* parseFloat(text): blanks skipped, an optional sign, digits, a point and
\* digits, up to the first character that fits none; NaN without a digit.
\* (No text of the model holds an exponent, "Infinity" or a non-ASCII blank.)
parseFloat(text) ==
    LET t == TrimStart(text)
        signed == t # <<>> /\ Head(t) \in {"+", "-"}
        body == IF signed THEN Tail(t) ELSE t
        whole == DigitPrefix(body, 1, 0)
        pointed == whole.len < Len(body) /\ body[whole.len + 1] = "."
        fraction == IF pointed THEN DigitPrefix(SubSeq(body, whole.len + 2, Len(body)), 1, 0)
                    ELSE [value |-> 0, len |-> 0]
        RECURSIVE Pow10(_)
        Pow10(n) == IF n = 0 THEN 1 ELSE 10 * Pow10(n - 1)
    IN  IF whole.len = 0 /\ fraction.len = 0 THEN NaN
        ELSE Ratio((IF signed /\ Head(t) = "-" THEN -1 ELSE 1)
                       * (whole.value * Pow10(fraction.len) + fraction.value),
                   Pow10(fraction.len))

\* RAW_CITIES_CSV.split('|').forEach(row => ...): the cache that the first call
\* of getCityCoords builds.
RECURSIVE CacheFrom(_, _, _)
CacheFrom(rows, i, cache) ==
    IF i > Len(rows) THEN cache
    ELSE LET fields == Split(rows[i], {","})
             key == Trim(toUpperCase(fields[2])) \o <<"-">> \o Trim(toUpperCase(fields[1]))
         IN  CacheFrom(rows, i + 1,
                 Put(cache, key, <<parseFloat(fields[3]), parseFloat(fields[4])>>))

\* The cache that the gazetteer fills.
BuiltCache == CacheFrom(Split(RAW_CITIES_CSV, {"|"}), 1, <<>>)

\* if (!cityCoordsCache) { cityCoordsCache = {}; ... }
EnsureCache(cache) == IF cache = Null THEN <<BuiltCache>> ELSE cache

\* A faulty variant of FallsBack: the first city of the name is taken whatever
\* the state says.
FallsBackAlways(cleanState) == TRUE

\* if (!cleanState || cleanState === '')
FallsBack(cleanState) == cleanState = <<>>

\* getCityCoords(city, state) on a built cache: no or one pair of coordinates.
getCityCoords(cache, city, state) ==
    LET cleanCity ==
            Trim(CutAt(CutAt(RemoveMarks(normalizeNFD(Trim(toUpperCase(city)))), "-"), "/"))
        cleanState == Trim(toUpperCase(state))
        key == cleanCity \o <<"-">> \o cleanState
        keys == ObjectEntries(cache)
        possible == {i \in DOMAIN keys : StartsWith(keys[i].key, cleanCity \o <<"-">>)}
    IN  IF cleanState # <<>> /\ Has(cache, key) THEN <<Get(cache, key)>>
        ELSE IF FallsBack(cleanState) /\ possible # {}
        THEN <<keys[CHOOSE i \in possible : \A j \in possible : i <= j].value>>
        ELSE <<>>

\* A faulty variant of IsPositive: a zero amount is counted too.
IsPositiveOrZero(val) == val >= 0

\* if (val > 0) cityStats[key].positivacao += 1
IsPositive(val) == val > 0

BR == <<"B", "R">>

\* data.forEach(r => ...) of getGeoStats, from row i on.
RECURSIVE CityStatsFrom(_, _, _, _)
CityStatsFrom(rows, cache, i, cityStats) ==
    IF i > Len(rows) THEN cityStats
    ELSE LET r == rows[i]
             coords == getCityCoords(cache, r.city, r.state)
             state == IF r.state = <<>> THEN BR ELSE r.state
             finalCityName == Trim(Split(toUpperCase(r.city), {"-"})[1])
             key == finalCityName \o <<"-">> \o state
             old == IF Has(cityStats, key) THEN Get(cityStats, key)
                    ELSE [city |-> finalCityName, state |-> state, lat |-> coords[1][1],
                          lng |-> coords[1][2], revenue |-> 0, positivacao |-> 0]
         IN  IF r.city = <<>> \/ coords = <<>>
             THEN CityStatsFrom(rows, cache, i + 1, cityStats)
             ELSE CityStatsFrom(rows, cache, i + 1,
                      Put(cityStats, key,
                          [old EXCEPT !.revenue = @ + r.amount,
                                      !.positivacao = @ + (IF IsPositive(r.amount) THEN 1 ELSE 0)]))

\* getGeoStats(data), given the cache as the calls of getCityCoords leave it.
getGeoStats(rows, cache) ==
    SortByRevenue(ObjectValues(CityStatsFrom(rows, cache[1], 1, <<>>)))

MaxGeoRows == 3

SaoPauloAccented == <<"S", "ã", "o", " ", "P", "a", "u", "l", "o">>
SaoPauloMixed == <<"S", "a", "o", " ", "P", "a", "u", "l", "o", " ", "-", " ", "S", "P">>
SaoPauloUpper == <<"S", "A", "O", " ", "P", "A", "U", "L", "O">>
PalmitalMixed == <<"P", "a", "l", "m", "i", "t", "a", "l">>
PalmitalUpper == <<"P", "A", "L", "M", "I", "T", "A", "L">>
AtlantidaAccented == <<"A", "t", "l", "â", "n", "t", "i", "d", "a">>
SP == <<"S", "P">>
PR == <<"P", "R">>

\* A record of 2025-11 that differs only in the fields getGeoStats reads.
GeoRow(city, state, operClass, amount, orderId) ==
    SaleRecord(Row(<<"N">>, <<"R", "1">>, <<"A">>, <<"J">>, <<"R", "C">>, <<"X">>, Nov15,
                   <<"A">>, <<"P", "1">>, amount, orderId, operClass, <<>>),
               Alfa, NA, <<"P">>, 1, city, state)

GeoRows ==
    { GeoRow(SaoPauloAccented, <<>>, "VD", 100, "O1"),
      GeoRow(SaoPauloMixed, SP, "VD", 300, "O2"),
      GeoRow(SaoPauloUpper, SP, "DV", -100, "O2"),
      GeoRow(PalmitalMixed, <<>>, "VD", 200, "O4"),
      GeoRow(PalmitalUpper, SP, "VD", 0, "O5"),
      GeoRow(SaoPauloUpper, PR, "VD", 400, "O6"),
      GeoRow(<<>>, SP, "VD", 100, "O7"),
      GeoRow(AtlantidaAccented, <<>>, "VD", 100, "O8") }

LoadGeoRow == LoadRow(GeoRows, MaxGeoRows)

\* A faulty variant of CacheAfter: a call without a city drops the table.
CacheAfterDrops(rows, cache) ==
    IF \E i \in DOMAIN rows : rows[i].city # <<>> THEN EnsureCache(cache) ELSE Null

\* The cache after getGeoStats(rows): built by the first call of getCityCoords,
\* which a record with a city makes.
CacheAfter(rows, cache) ==
    IF \E i \in DOMAIN rows : rows[i].city # <<>> THEN EnsureCache(cache) ELSE cache

GetGeoStats ==
    /\ calls = {}
    /\ geoStats' = getGeoStats(data, EnsureCache(cityCoordsCache))
    /\ cityCoordsCache' = CacheAfter(data, cityCoordsCache)
    /\ calls' = calls \cup {"getGeoStats"}
    /\ UNCHANGED <<data, filters, kpis, filtered, options, entityStats, productStats,
                   pivotData, pivotTable,
                   session>>

\* One render of App: the memos of the KPIs, the pivot, the options, the map,
\* the representatives and the product tab, all from the same records.
RenderDashboard ==
    /\ calls = {}
    /\ filtered' = filterData(data, filters)
    /\ kpis' = calculateKPIs(filterData(data, WithMonths(filters, M202511, M202511)))
    /\ pivotData' = getSectorPivotData(filtered')
    /\ options' = getCascadingOptions(data, filters)
    /\ geoStats' = getGeoStats(filtered', EnsureCache(cityCoordsCache))
    /\ cityCoordsCache' = CacheAfter(filtered', cityCoordsCache)
    /\ entityStats' = getRepStats(filtered')
    /\ productStats' = getProductStats(filtered')
    /\ calls' = calls \cup {"App", "getGeoStats"}
    /\ UNCHANGED <<data, filters, pivotTable, session>>

NextGeo == LoadGeoRow \/ GetGeoStats \/ RenderDashboard

SpecGeo == InitKpi /\ [][NextGeo]_vars

GeoDone == "getGeoStats" \in calls

DashboardDone == "App" \in calls

\* The gazetteer entries the model holds, as the gazetteer lists them.
Gazetteer ==
    << [uf |-> PR, name |-> <<"C", "U", "R", "I", "T", "I", "B", "A">>,
        coords |-> <<Ratio(-254195, 10000), Ratio(-492646, 10000)>>],
       [uf |-> PR, name |-> PalmitalUpper,
        coords |-> <<Ratio(-248853, 10000), Ratio(-522029, 10000)>>],
       [uf |-> <<"S", "C">>, name |-> <<"C", "U", "R", "I", "T", "I", "B", "A", "N", "O", "S">>,
        coords |-> <<Ratio(-272824, 10000), Ratio(-505816, 10000)>>],
       [uf |-> SP, name |-> PalmitalUpper,
        coords |-> <<Ratio(-227858, 10000), Ratio(-50218, 1000)>>],
       [uf |-> SP, name |-> SaoPauloUpper,
        coords |-> <<Ratio(-235329, 10000), Ratio(-466395, 10000)>>] >>

\* The gazetteer name that a city text spells, in some letter case and with
\* or without diacritics; no text for a city the gazetteer does not hold.
SpelledName(city) ==
    CASE city \in {SaoPauloAccented, SaoPauloUpper} -> SaoPauloUpper
      [] city \in {PalmitalMixed, PalmitalUpper} -> PalmitalUpper
      [] OTHER -> <<>>

\* The gazetteer entries of a name, by their positions.
EntriesNamed(name) == {k \in DOMAIN Gazetteer : Gazetteer[k].name = name}

\* The first gazetteer entry of a name.
FirstNamed(name) ==
    Gazetteer[CHOOSE k \in EntriesNamed(name) : \A j \in EntriesNamed(name) : k <= j]

\* The loaded records with a blank state whose city spells a gazetteer name.
BlankStateRows ==
    {i \in DOMAIN data : data[i].state = <<>> /\ SpelledName(data[i].city) # <<>>}

\* C18, as the code has it: a record with a blank state whose city spells a
\* gazetteer name in any letter case and with diacritics resolves to the
\* coordinates of the first gazetteer entry of that name, which are those of
\* the normalized name with that entry's state code, and its map entry
\* carries them.
C18_FirstEntry ==
    GeoDone =>
        \A i \in BlankStateRows :
            LET first == FirstNamed(SpelledName(data[i].city))
                found == getCityCoords(cityCoordsCache[1], data[i].city, data[i].state)
            IN  /\ found = <<first.coords>>
                /\ found = getCityCoords(cityCoordsCache[1], first.name, first.uf)
                /\ \E k \in DOMAIN geoStats :
                      /\ geoStats[k].state = BR
                      /\ geoStats[k].city = toUpperCase(data[i].city)
                      /\ <<geoStats[k].lat, geoStats[k].lng>> = first.coords

\* C18, as it is stated: for every gazetteer city, a record with a blank state
\* whose city spells its name resolves to the coordinates of the normalized
\* name with the state code of that city.
C18_EveryEntry ==
    GeoDone =>
        \A i \in BlankStateRows :
            \A k \in EntriesNamed(SpelledName(data[i].city)) :
                getCityCoords(cityCoordsCache[1], data[i].city, data[i].state)
                    = getCityCoords(cityCoordsCache[1], Gazetteer[k].name, Gazetteer[k].uf)

\* "São Paulo" with a blank state is on the map at the coordinates of
\* SAO PAULO / SP, and "Palmital" with a blank state at those of the first
\* PALMITAL, that of PR.
C18_Witness ==
    /\ GeoDone
    /\ \E i, j \in BlankStateRows :
          /\ data[i].city = SaoPauloAccented
          /\ data[j].city = PalmitalMixed
    /\ \E k, n \in DOMAIN geoStats :
          /\ <<geoStats[k].lat, geoStats[k].lng>> = Gazetteer[5].coords
          /\ geoStats[k].state = BR
          /\ <<geoStats[n].lat, geoStats[n].lng>> = Gazetteer[2].coords
          /\ geoStats[n].state = BR

\* The map entry a record is counted in: none for a record without a city or
\* with a city that does not resolve, else the entry's city, state and
\* coordinates.
ExpectedPlace(r) ==
    LET place(city, state, k) ==
            <<[city |-> city, state |-> state, lat |-> Gazetteer[k].coords[1],
               lng |-> Gazetteer[k].coords[2]]>>
    IN  CASE r.city = SaoPauloAccented /\ r.state = <<>> -> place(<<"S", "Ã", "O", " ", "P", "A", "U", "L", "O">>, BR, 5)
          [] r.city \in {SaoPauloMixed, SaoPauloUpper} /\ r.state = SP ->
                place(SaoPauloUpper, SP, 5)
          [] r.city = PalmitalMixed /\ r.state = <<>> -> place(PalmitalUpper, BR, 2)
          [] r.city = PalmitalUpper /\ r.state = SP -> place(PalmitalUpper, SP, 4)
          [] OTHER -> <<>>

\* The positions of the loaded records counted in a map entry.
RowsOfPlace(e) ==
    {i \in DOMAIN data :
        ExpectedPlace(data[i])
            = <<[city |-> e.city, state |-> e.state, lat |-> e.lat, lng |-> e.lng]>>}

\* C19: getGeoStats returns one entry per city key that a record resolved to;
\* its revenue is the signed sum of the amounts of the records of that key and
\* its positivacao the number of them with an amount above 0; the entries are
\* in descending order of revenue.
C19_GeoStats ==
    GeoDone =>
        /\ \A k \in DOMAIN geoStats :
              /\ RowsOfPlace(geoStats[k]) # {}
              /\ geoStats[k].revenue = SumAmountOver(data, RowsOfPlace(geoStats[k]))
              /\ geoStats[k].positivacao =
                    Cardinality({i \in RowsOfPlace(geoStats[k]) : data[i].amount > 0})
        /\ \A i \in DOMAIN data :
              ExpectedPlace(data[i]) # <<>> =>
                  \E k \in DOMAIN geoStats : i \in RowsOfPlace(geoStats[k])
        /\ \A k, j \in DOMAIN geoStats :
              RowsOfPlace(geoStats[k]) = RowsOfPlace(geoStats[j]) => k = j
        /\ \A k, j \in DOMAIN geoStats :
              k < j => geoStats[k].revenue >= geoStats[j].revenue

\* Two entries: the first sums a sale and a return of the same city key and
\* counts one of them, the second comes from the record loaded first, whose
\* amount of 0 adds nothing to its count.
C19_Witness ==
    /\ GeoDone
    /\ Len(geoStats) = 2
    /\ Cardinality(RowsOfPlace(geoStats[1])) = 2
    /\ geoStats[1].positivacao = 1
    /\ geoStats[1].revenue > 0
    /\ RowsOfPlace(geoStats[2]) = {1}
    /\ geoStats[2].positivacao = 0

\* The sum of the revenue of the entries of an aggregate.
RECURSIVE RevenueOfAll(_)
RevenueOfAll(stats) ==
    IF stats = <<>> THEN 0 ELSE Head(stats).revenue + RevenueOfAll(Tail(stats))

\* The positions of the records of the rendered subset that are in no map
\* entry: no city, a city the gazetteer does not hold, or a city with a state
\* that has no entry of that city and state.
Unresolved == {i \in DOMAIN filtered : ExpectedPlace(filtered[i]) = <<>>}

\* C20: a record whose city is missing or does not resolve, a city with a
\* non-blank state without an entry of that city and state included, is in no
\* getGeoStats entry, while calculateKPIs and the entity, product and pivot
\* aggregators over the same subset still count it.
C20_ExcludedFromGeoOnly ==
    DashboardDone =>
        LET all == DOMAIN filtered
            total == SumAmountOver(filtered, all)
        IN  /\ \A i \in Unresolved :
                  getCityCoords(EnsureCache(cityCoordsCache)[1], filtered[i].city,
                                filtered[i].state) = <<>>
            /\ RevenueOfAll(geoStats) = SumAmountOver(filtered, all \ Unresolved)
            /\ \A k \in DOMAIN geoStats :
                  geoStats[k].positivacao <= Cardinality(all \ Unresolved)
            /\ kpis.totalRevenue = total
            /\ RevenueOfAll(entityStats) = total
            /\ RevenueOfAll(productStats) = total
            /\ \A i \in Unresolved :
                  /\ \E k \in DOMAIN entityStats :
                        \E j \in DOMAIN entityStats[k].records :
                            entityStats[k].records[j] = filtered[i]
                  /\ \E k \in DOMAIN productStats :
                        productStats[k].code = filtered[i].productCode
                  /\ Get(pivotData.monthTotals, M202511).totalRevenue = total
                  /\ \E k \in DOMAIN pivotData.rows :
                        /\ pivotData.rows[k].sector = filtered[i].sector
                        /\ Get(pivotData.rows[k].months, M202511).totalRevenue = total

\* The dashboard is rendered over a record without a city, a record of
\* SAO PAULO with the state PR and a record that resolves: the map holds the
\* third alone, and the indicators count all three.
C20_Witness ==
    /\ DashboardDone
    /\ \E i, j \in Unresolved :
          /\ filtered[i].city = <<>>
          /\ filtered[j].city = SaoPauloUpper /\ filtered[j].state = PR
    /\ Len(geoStats) = 1
    /\ Len(filtered) = 3
    /\ kpis.totalRevenue = RevenueOfAll(geoStats) + 500

(***************************************************************************)
(* Repeated geo lookups in one process (checked under SpecGeoLookups).     *)
(***************************************************************************)
\* The sublist of the rows at the positions of a set, in the order of the list.
Sublists(rows) == {SelectRows(rows, S) : S \in SUBSET DOMAIN rows}

\* One more call getGeoStats(fullPeriodData), on any subset of the loaded
\* records, in a process that may have made such calls before.
GeoLookup ==
    /\ \E rows \in Sublists(data) :
          /\ filtered' = rows
          /\ geoStats' = getGeoStats(rows, EnsureCache(cityCoordsCache))
          /\ cityCoordsCache' = CacheAfter(rows, cityCoordsCache)
    /\ calls' = calls \cup {"getGeoStats"}
    /\ UNCHANGED <<data, filters, kpis, options, entityStats, productStats, pivotData,
                   pivotTable,
                   session>>

MaxLookupRows == 3

\* Records with a city that resolves, with a city that does not, and without
\* a city.
LookupRows ==
    { GeoRow(SaoPauloAccented, <<>>, "VD", 100, "O1"),
      GeoRow(SaoPauloUpper, PR, "VD", 400, "O6"),
      GeoRow(<<>>, SP, "VD", 100, "O7") }

LoadLookupRow == LoadRow(LookupRows, MaxLookupRows)

NextGeoLookups == LoadLookupRow \/ GeoLookup

SpecGeoLookups == InitKpi /\ [][NextGeoLookups]_vars

\* C21: across any sequence of geo lookups the gazetteer table is built at
\* most once, by the first call that looks a city up, and once built no call
\* adds, removes or changes an entry; no other state is carried from call to
\* call: each call returns what a fresh process returns for the same records.
C21_CacheBuiltOnce ==
    [][/\ cityCoordsCache # Null => cityCoordsCache' = cityCoordsCache
       /\ cityCoordsCache' # cityCoordsCache =>
             /\ cityCoordsCache = Null
             /\ cityCoordsCache' = <<BuiltCache>>
             /\ "getGeoStats" \in calls'
             /\ \E i \in DOMAIN filtered' : filtered'[i].city # <<>>
       /\ "getGeoStats" \in calls' =>
             geoStats' = getGeoStats(filtered', <<BuiltCache>>)]_vars

\* The table is built, and the last call, on records without a city, came
\* after the call that built it.
C21_Witness ==
    /\ "getGeoStats" \in calls
    /\ cityCoordsCache = <<BuiltCache>>
    /\ filtered # <<>>
    /\ \A i \in DOMAIN filtered : filtered[i].city = <<>>
    /\ \E i \in DOMAIN data : data[i].city # <<>>

(***************************************************************************)
(* parseCSV: the normalization of the rows of a CSV text (SpecParse).      *)
(***************************************************************************)
\* str.replace(/R\$/gi, ''): the text without its "R$" and "r$".
RemoveCurrency(str) ==
    LET marks == {i \in DOMAIN str : str[i] \in {"R", "r"} /\ i < Len(str) /\ str[i + 1] = "$"}
    IN  SelectRows(str, {i \in DOMAIN str : i \notin marks /\ (i - 1) \notin marks})

\* clean.replace(c, d) with a text pattern: the first c becomes d.
ReplaceFirst(text, c, d) ==
    LET at == {i \in DOMAIN text : text[i] = c}
    IN  [i \in DOMAIN text |-> IF i \in at /\ (\A j \in at : i <= j) THEN d ELSE text[i]]

\* The text that parseAmount hands to parseFloat.
CleanAmount(str) ==
    LET clean == SelectRows(str, {i \in DOMAIN str : str[i] \in Digits \cup {",", "."}})
        comma == \E i \in DOMAIN clean : clean[i] = ","
        dot == \E i \in DOMAIN clean : clean[i] = "."
    IN  IF comma /\ dot
        THEN ReplaceFirst(SelectRows(clean, {i \in DOMAIN clean : clean[i] # "."}), ",", ".")
        ELSE IF comma THEN ReplaceFirst(clean, ",", ".")
        ELSE clean

\* num with the sign that parseAmount applies.
Signed(isExplicitNegative, num) ==
    IF IsNaN(num) THEN FromInt(0)
    ELSE IF isExplicitNegative THEN Ratio(-Abs(num[1]), num[2])
    ELSE num

\* parseAmount(val)
parseAmount(val) ==
    IF val = <<>> THEN FromInt(0)
    ELSE Signed(\E i \in DOMAIN Trim(val) : Trim(val)[i] = "-",
                parseFloat(CleanAmount(Trim(RemoveCurrency(Trim(val))))))

\* val.match(/^\d{4}-\d{2}-\d{2}$/)
MatchesIso(val) ==
    /\ Len(val) = 10
    /\ \A i \in {1, 2, 3, 4, 6, 7, 9, 10} : val[i] \in Digits
    /\ val[5] = "-" /\ val[8] = "-"

\* parseDate(val)
parseDate(val) ==
    IF val = <<>> THEN <<>>
    ELSE IF MatchesIso(val) THEN val
    ELSE IF Len(Split(val, {"/"})) = 3
    THEN Split(val, {"/"})[3] \o <<"-">> \o Split(val, {"/"})[2] \o <<"-">>
             \o Split(val, {"/"})[1]
    ELSE <<>>

\* `${index}` for the indices of the model.
IndexText(index) == <<<<"0">>, <<"1">>, <<"2">>, <<"3">>, <<"4">>, <<"5">>>>[index + 1]

\* The columns of a CSV row that the model varies: the date ('Data NFE'), the
\* amount ('Valor') and the operation class ('Classe Oper.'); every other
\* column is absent.
RawRow(dateStr, amountStr, classOper) ==
    [dateStr |-> dateStr, amountStr |-> amountStr, classOper |-> classOper]

\* row[name] || fallback: the cell of a column, the fallback when the column
\* is absent or its cell is empty.
Column(row, name, fallback) ==
    IF name \in DOMAIN row /\ row[name] # <<>> THEN row[name] ELSE fallback

\* Object.values(Channel)
ChannelValues == {<<"R", "C">>, <<"W", "E", "B">>, <<"V", "D">>, <<"T", "V">>}

\* Object.values(Channel).includes(channelStr) ? channelStr : Channel.VD
ChannelOf(channelStr) == IF channelStr \in ChannelValues THEN channelStr ELSE <<"V", "D">>

\* The record that the row at an index is normalized to.
RecordOf(row, index) ==
    SaleRecord(
        Row(Column(row, "division", NA), Column(row, "region", NA), Column(row, "sector", NA),
            Column(row, "salesRep", NA), ChannelOf(Column(row, "channelStr", NA)),
            Column(row, "supplier", NA), parseDate(row.dateStr),
            <<"U", "N", "K", "N", "O", "W", "N", "-">> \o IndexText(index), NA,
            parseAmount(IF row.amountStr = <<>> THEN <<"0">> ELSE row.amountStr),
            <<"U", "N", "K", "-">> \o IndexText(index),
            IF row.classOper = <<"D", "V">> THEN "DV" ELSE "VD", <<>>),
        <<"C", "l", "i", "e", "n", "t", "e", " ", "D", "e", "s", "c", "o", "n", "h", "e", "c", "i", "d", "o">>, <<"I", "n", "d", "e", "p", "e", "n", "d", "e", "n", "t", "e">>, <<"P", "r", "o", "d", "u", "t", "o", " ", "D", "e", "s", "c", "o", "n", "h", "e", "c", "i", "d", "o">>, 0, <<>>, <<>>)
        @@ [id |-> <<"R", "O", "W", "-">> \o IndexText(index)]

\* rows.forEach((row, index) => ... if (date) records.push(...))
RECURSIVE RecordsFrom(_, _)
RecordsFrom(rows, n) ==
    IF n = 0 THEN <<>>
    ELSE IF parseDate(rows[n].dateStr) # <<>>
    THEN Append(RecordsFrom(rows, n - 1), RecordOf(rows[n], n - 1))
    ELSE RecordsFrom(rows, n - 1)

\* new Date(date).getTime() in days: the day number of a calendar date in the
\* ISO form, NaN for any other text.
DateValue(date) ==
    LET y == ParseInt(SubSeq(date, 1, 4))[1]
        m == ParseInt(SubSeq(date, 6, 7))[1]
        d == ParseInt(SubSeq(date, 9, 10))[1]
    IN  IF MatchesIso(date) /\ m \in 1..12 /\ d >= 1 /\ d <= MonthLength(y, m - 1)
        THEN FromInt(DayNumber(y, m - 1, d))
        ELSE NaN

\* The lists that hold the records of a list in some order.
Orders(records) ==
    {[i \in DOMAIN records |-> records[p[i]]] :
        p \in {q \in [DOMAIN records -> DOMAIN records] :
                  \A i, j \in DOMAIN records : q[i] = q[j] => i = j}}

\* records.sort((a, b) => new Date(a.date).getTime() - new Date(b.date).getTime()):
\* the stable ascending order; with a date that is no date the comparator is
\* not consistent and the order is any order.
SortedByDate(records) ==
    IF \E i \in DOMAIN records : IsNaN(DateValue(records[i].date))
    THEN Orders(records)
    ELSE {SortDesc(records,
              [i \in DOMAIN records |-> RMul(FromInt(-1), DateValue(records[i].date))])}

\* parseCSV(csvText), on the rows that Papa.parse returned: the lists it may return.
parseCSV(rows) == SortedByDate(RecordsFrom(rows, Len(rows)))

MaxCsvRows == 3

IsoNov15 == Nov15
BrNov05 == <<"0", "5", "/", "1", "1", "/", "2", "0", "2", "5">>
Dotted == <<"1", "5", ".", "1", "1", ".", "2", "0", "2", "5">>
ShortParts == <<"1", "/", "2", "/", "2", "0", "2", "5">>
YearFirst == <<"2", "0", "2", "5", "/", "1", "1", "/", "1", "5">>

Plain100 == <<"1", "0", "0">>
Minus100 == <<"-", "1", "0", "0">>
Currency == <<"R", "$", " ", "1", ".", "0", "0", "0", ",", "5", "0">>
CurrencyMinus == <<"-", "R", "$", " ", "1", ".", "0", "0", "0", ",", "5", "0">>

RawRows ==
    { RawRow(IsoNov15, Plain100, <<"V", "D">>),
      RawRow(IsoNov15, Minus100, <<"D", "V">>),
      RawRow(BrNov05, Currency, <<>>),
      RawRow(BrNov05, CurrencyMinus, <<"D", "V">>),
      RawRow(<<>>, Plain100, <<"V", "D">>),
      RawRow(Dotted, Plain100, <<"V", "D">>),
      RawRow(ShortParts, <<>>, <<"V", "D">>),
      RawRow(YearFirst, Plain100, <<"D", "V">>),
      RawRow(IsoNov15, Minus100, <<"V", "D">>) }

\* One more row of the CSV text that is read.
ReadRow ==
    /\ calls = {}
    /\ Len(csv) < MaxCsvRows
    /\ \E row \in RawRows : csv' = Append(csv, row)
    /\ UNCHANGED <<data, filters, calls, kpis, filtered, options, aggregates, ui>>

\* const newData = parseCSV(text)
ParseCSV ==
    /\ calls = {}
    /\ data' \in parseCSV(csv)
    /\ calls' = {"parseCSV"}
    /\ UNCHANGED <<filters, kpis, filtered, options, aggregates, session>>

NextParse == ReadRow \/ ParseCSV

SpecParse == InitKpi /\ [][NextParse]_vars

ParseDone == "parseCSV" \in calls

\* A text of the form YYYY-MM-DD.
IsIsoForm(text) ==
    /\ Len(text) = 10
    /\ \A i \in {1, 2, 3, 4, 6, 7, 9, 10} : text[i] \in Digits
    /\ text[5] = "-" /\ text[8] = "-"

\* A text of the form DD/MM/YYYY.
IsBrForm(text) ==
    /\ Len(text) = 10
    /\ \A i \in {1, 2, 4, 5, 7, 8, 9, 10} : text[i] \in Digits
    /\ text[3] = "/" /\ text[6] = "/"

\* The date a raw date is to be normalized to; no text when the row is to
\* produce no record.
ExpectedDate(raw) ==
    IF IsIsoForm(raw) THEN raw
    ELSE IF IsBrForm(raw)
    THEN SubSeq(raw, 7, 10) \o <<"-">> \o SubSeq(raw, 4, 5) \o <<"-">> \o SubSeq(raw, 1, 2)
    ELSE <<>>

\* The CSV row that a record was normalized from.
RowOfRecord(record) ==
    csv[CHOOSE i \in DOMAIN csv : record.id = <<"R", "O", "W", "-">> \o IndexText(i - 1)]

\* C22: parseCSV keeps a raw date only when it is YYYY-MM-DD (kept as is) or
\* DD/MM/YYYY (rewritten to ISO); a row with a raw date of any other shape, or
\* without one, produces no record, so every record's date is YYYY-MM-DD.
C22_DatesNormalized ==
    ParseDone =>
        /\ \A k \in DOMAIN data :
              /\ IsIsoForm(data[k].date)
              /\ data[k].date = ExpectedDate(RowOfRecord(data[k]).dateStr)
        /\ Len(data) = Cardinality({i \in DOMAIN csv : ExpectedDate(csv[i].dateStr) # <<>>})

\* C23: every record that parseCSV produces carries an amount whose sign agrees
\* with its operation class: a VD record has amount >= 0 and a DV record has
\* amount <= 0.
C23_AmountSign ==
    ParseDone =>
        \A k \in DOMAIN data :
            /\ data[k].operClass = "VD" => RGeZero(data[k].amount)
            /\ data[k].operClass = "DV" => RGeZero(RMul(FromInt(-1), data[k].amount))

\* The seven metrics of a KPIStats.
SevenMetrics(stats) == [key \in SetOf(MetricKeys) |-> stats[key]]

\* C24: calculateKPIs depends only on the multiset of the records, not on
\* their order: on every permutation of the record list all seven metrics,
\* avgTerm with its memo per order id among them, are equal.
C24_OrderIndependent ==
    KpisDone =>
        \A rows \in Orders(data) : SevenMetrics(calculateKPIs(rows)) = SevenMetrics(kpis)

\* C25: getGeoStats emits at most one entry per resolved location: records
\* that resolve to the same gazetteer coordinates are accumulated into the
\* same entry, so no two entries share the same (lat, lng).
C25_OneEntryPerLocation ==
    GeoDone =>
        \A k, j \in DOMAIN geoStats :
            <<geoStats[k].lat, geoStats[k].lng>> = <<geoStats[j].lat, geoStats[j].lng>> => k = j

\* p <= q
RLe(p, q) == RGeZero(RSub(q, p))

\* C26: avgInstallments and avgTerm are never negative, also when SALE rows
\* carry a zero or negative amount, and each lies between the smallest and the
\* largest per-row value (installment count, day count of the order) that
\* contributed to it.
C26_WithinRange ==
    KpisDone =>
        /\ RGeZero(kpis.avgInstallments)
        /\ RGeZero(kpis.avgTerm)
        /\ kpis.installmentTotals.weight > 0 =>
              \E i, j \in InstallmentRows :
                  /\ RLe(FromInt(ExpectedInstallments(data[i].paymentTerms)), kpis.avgInstallments)
                  /\ RLe(kpis.avgInstallments, FromInt(ExpectedInstallments(data[j].paymentTerms)))
        /\ kpis.termTotals.weight > 0 =>
              \E j, k \in DOMAIN Used :
                  RLe(Used[j].days, kpis.avgTerm) /\ RLe(kpis.avgTerm, Used[k].days)

(***************************************************************************)
(* App: the setup screen, the dashboard filters and the CSV upload.        *)
(***************************************************************************)
\* Array.from(new Set(rows.map(r => r[key]).filter(Boolean))).sort()
Available(rows, key) ==
    SortStrings(DropEmpty(Dedupe([i \in DOMAIN rows |-> rows[i][key]], 1)))

\* data.filter(r => selected.includes(r[key])), applied when something is selected.
Narrowed(rows, key, selected) ==
    IF Len(selected) > 0
    THEN SelectRows(rows, {i \in DOMAIN rows : Includes(selected, rows[i][key])})
    ELSE rows

availableChannels(allData) == Available(allData, "channel")

availableRegions(allData, selectedChannels) ==
    Available(Narrowed(allData, "channel", selectedChannels), "region")

availableDivisions(allData, selectedChannels, selectedRegions) ==
    IF Len(selectedRegions) > 0
    THEN Available(Narrowed(Narrowed(allData, "channel", selectedChannels),
                            "region", selectedRegions), "division")
    ELSE <<>>

\* MultiSelectDropdown.toggleOption: what it hands to onChange.
toggleOption(selected, option) ==
    IF Includes(selected, option)
    THEN SelectRows(selected, {i \in DOMAIN selected : selected[i] # option})
    ELSE Append(selected, option)

\* MultiSelectDropdown.toggleAll: what it hands to onChange.
toggleAll(selected, opts) == IF Len(selected) = Len(opts) THEN <<>> ELSE opts

\* What a click in a dropdown can hand to onChange.
Toggles(selected, opts) ==
    {toggleAll(selected, opts)} \cup {toggleOption(selected, opts[i]) : i \in DOMAIN opts}

\* A faulty variant of SetupIncomplete: the setup is never refused.
SetupIncompleteNever(state) == FALSE

\* selectedChannels.length === 0 || selectedRegions.length === 0 || selectedDivisions.length === 0
SetupIncomplete(state) ==
    \/ Len(state.selectedChannels) = 0
    \/ Len(state.selectedRegions) = 0
    \/ Len(state.selectedDivisions) = 0

\* setFilters(prev => ({ ...prev, [key]: value === 'all' ? [] : [value] }))
handleFilterChange(prev, key, value) ==
    [prev EXCEPT ![key] = IF value = All THEN <<>> ELSE <<value>>]

\* setFilters(prev => ({ ...prev, sector: [], salesRep: [], supplier: [] }))
clearFilters(prev) == [prev EXCEPT !.sector = <<>>, !.salesRep = <<>>, !.supplier = <<>>]

\* The name of the options that filterOptions offers for a filter key.
OptionsKey(key) == [sector |-> "sectors", salesRep |-> "reps", supplier |-> "suppliers"][key]

AdditionalKeys == {"sector", "salesRep", "supplier"}

\* The columns of a CSV row that the setup and the additional filters read.
SheetRow(canal, regiao, divisao, setor, representante, fornecedor) ==
    RawRow(IsoNov15, Plain100, <<"V", "D">>)
        @@ [channelStr |-> canal, region |-> regiao, division |-> divisao,
            sector |-> setor, salesRep |-> representante, supplier |-> fornecedor]

\* The text of the Google sheet.
SheetText ==
    << SheetRow(<<"R", "C">>, <<"R", "1">>, <<"N">>, <<"A">>, <<"J">>, <<"X">>),
       SheetRow(<<"R", "C">>, <<"R", "2">>, <<"S">>, <<"B">>, <<"K">>, <<"Y">>) >>

\* The text of a CSV file of the user.
FileText ==
    << SheetRow(<<"W", "E", "B">>, <<"R", "1">>, <<"N">>, <<"B">>, <<"K">>, <<"X">>) >>

\* The files the user can pick: an empty file and a file of rows.
FileTexts == {<<>>, FileText}

\* The FileReader loads that can be waiting at a time.
MaxReads == 1

\* initData of the mount effect, when fetchGoogleSheetsData resolves: with the
\* parsed sheet, or with [] after a failed request.
InitData ==
    /\ app.loading
    /\ \/ \E rows \in parseCSV(SheetText) :
             /\ data' = (IF Len(rows) > 0 THEN rows ELSE data)
             /\ csv' = SheetText
       \/ UNCHANGED <<data, csv>>
    /\ app' = [app EXCEPT !.loading = FALSE]
    /\ options' = getCascadingOptions(data', filters)
    /\ UNCHANGED <<filters, calls, kpis, filtered, aggregates, reads, table, panel, service>>

\* The setup screen offers its dropdowns and its buttons.
SetupShown == ~app.isSetupComplete /\ ~app.loading

\* onChange of 'Selecione os Canais'
ChangeChannels ==
    /\ SetupShown
    /\ \E newSelected \in Toggles(app.selectedChannels, availableChannels(data)) :
          app' = [app EXCEPT !.selectedChannels = newSelected,
                             !.selectedRegions = <<>>, !.selectedDivisions = <<>>]
    /\ UNCHANGED <<data, filters, calls, kpis, filtered, options, aggregates, csv,
                   reads, table, panel, service>>

\* onChange of 'Selecione as Regiões', disabled while no channel is selected.
ChangeRegions ==
    /\ SetupShown
    /\ Len(app.selectedChannels) # 0
    /\ \E newSelected \in Toggles(app.selectedRegions,
                                  availableRegions(data, app.selectedChannels)) :
          app' = [app EXCEPT !.selectedRegions = newSelected, !.selectedDivisions = <<>>]
    /\ UNCHANGED <<data, filters, calls, kpis, filtered, options, aggregates, csv,
                   reads, table, panel, service>>

\* onChange of 'Selecione as Divisões', disabled while no region is selected.
ChangeDivisions ==
    /\ SetupShown
    /\ Len(app.selectedRegions) # 0
    /\ \E newSelected \in Toggles(app.selectedDivisions,
              availableDivisions(data, app.selectedChannels, app.selectedRegions)) :
          app' = [app EXCEPT !.selectedDivisions = newSelected]
    /\ UNCHANGED <<data, filters, calls, kpis, filtered, options, aggregates, csv,
                   reads, table, panel, service>>

\* handleSetupComplete, the handler of 'Acessar Dashboard': it refuses with an
\* alert while a selection is empty.
HandleSetupComplete ==
    /\ SetupShown
    /\ IF SetupIncomplete(app)
       THEN /\ calls' = calls \cup {"alert"}
            /\ UNCHANGED <<filters, options, app>>
       ELSE /\ filters' = [filters EXCEPT !.channel = app.selectedChannels,
                                          !.region = app.selectedRegions,
                                          !.division = app.selectedDivisions]
            /\ app' = [app EXCEPT !.isSetupComplete = TRUE]
            /\ options' = getCascadingOptions(data, filters')
            /\ UNCHANGED calls
    /\ UNCHANGED <<data, kpis, filtered, aggregates, csv, reads, table, panel, service>>

\* onClick of 'Alterar Filtros': setIsSetupComplete(false)
AlterarFiltros ==
    /\ app.isSetupComplete
    /\ app' = [app EXCEPT !.isSetupComplete = FALSE]
    /\ UNCHANGED <<data, filters, calls, kpis, filtered, options, aggregates, csv,
                   reads, table, panel, service>>

\* What handleFilterChange and clearFilters do to the filters and to the
\* memoized filterOptions, on the dashboard.
SetFilters(newFilters) ==
    /\ app.isSetupComplete
    /\ filters' = newFilters
    /\ options' = getCascadingOptions(data, newFilters)
    /\ UNCHANGED <<data, calls, kpis, filtered, aggregates, csv, app, reads>>

\* The values a select of the additional filters offers: 'all' and the options.
Offered(key) == {All} \cup {options[OptionsKey(key)][i] : i \in DOMAIN options[OptionsKey(key)]}

\* onChange of a select of the additional filters.
HandleFilterChange ==
    /\ \E key \in AdditionalKeys : \E value \in Offered(key) :
          SetFilters(handleFilterChange(filters, key, value))
    /\ UNCHANGED <<table, panel, service>>

\* 'LIMPAR' is shown while an additional filter is set.
LimparShown ==
    Len(filters.sector) > 0 \/ Len(filters.salesRep) > 0 \/ Len(filters.supplier) > 0

\* onClick of 'LIMPAR'
ClearFilters ==
    /\ LimparShown
    /\ SetFilters(clearFilters(filters))
    /\ UNCHANGED <<table, panel, service>>

\* handleFileChange: a FileReader starts to read the file that was picked.
HandleFileChange ==
    /\ ~app.loading
    /\ Len(reads) < MaxReads
    /\ \E text \in FileTexts : reads' = Append(reads, text)
    /\ UNCHANGED <<data, filters, calls, kpis, filtered, options, aggregates, csv,
                   app, table, panel, service>>

\* setIsSetupComplete(false); setSelectedChannels([]); setSelectedRegions([]); setSelectedDivisions([])
AfterUpload(state) ==
    [state EXCEPT !.isSetupComplete = FALSE, !.selectedChannels = <<>>,
                  !.selectedRegions = <<>>, !.selectedDivisions = <<>>]

\* reader.onload of one of the waiting loads: an empty text is ignored.
ReaderOnload ==
    \E i \in DOMAIN reads :
        /\ reads' = SelectRows(reads, DOMAIN reads \ {i})
        /\ IF reads[i] # <<>>
           THEN /\ data' \in parseCSV(reads[i])
                /\ csv' = reads[i]
                /\ app' = AfterUpload(app)
                /\ options' = getCascadingOptions(data', filters)
           ELSE UNCHANGED <<data, csv, app, options>>
        /\ UNCHANGED <<filters, calls, kpis, filtered, aggregates, table, panel, service>>

NextApp ==
    \/ InitData
    \/ ChangeChannels
    \/ ChangeRegions
    \/ ChangeDivisions
    \/ HandleSetupComplete
    \/ AlterarFiltros
    \/ HandleFilterChange
    \/ ClearFilters
    \/ HandleFileChange
    \/ ReaderOnload

SpecApp == InitKpi /\ [][NextApp]_vars

\* C27: while the dashboard is shown (isSetupComplete), filters.channel,
\* filters.region and filters.division are each non-empty; and a step taken
\* while one of the three selections is empty, the refused confirmation
\* included, changes neither isSetupComplete nor the filters.
C27_DashboardHasSetup ==
    /\ [](app.isSetupComplete =>
             Len(filters.channel) > 0 /\ Len(filters.region) > 0 /\ Len(filters.division) > 0)
    /\ [][(Len(app.selectedChannels) = 0 \/ Len(app.selectedRegions) = 0
              \/ Len(app.selectedDivisions) = 0)
          => app'.isSetupComplete = app.isSetupComplete /\ filters' = filters]_vars

\* The dashboard is shown again after 'Alterar Filtros', an additional filter
\* and an upload were used, and a confirmation was refused.
C27_Witness ==
    /\ app.isSetupComplete
    /\ "alert" \in calls
    /\ Len(data) = Len(FileText)
    /\ LimparShown

\* C28: on the dashboard every value selected in the sector, representative
\* and supplier filters is among the options that getCascadingOptions offers
\* for its dimension over the loaded data and the current filters.
C28_SelectionOffered ==
    app.isSetupComplete =>
        \A key \in AdditionalKeys : \A i \in DOMAIN filters[key] :
            Includes(getCascadingOptions(data, filters)[OptionsKey(key)], filters[key][i])

(***************************************************************************)
(* App: the detail table and its pages. The four memoized tables           *)
(* (clientStats, productStats, supplierStats, networksStats) are followed  *)
(* by their lengths, which are inputs here: a table of the engine over the *)
(* few records of the sheet never fills a page.                            *)
(***************************************************************************)
ITEMS_PER_PAGE == 30

Tabs == {"clients", "products", "suppliers", "redes"}

\* getCurrentTableData().length
CurrentLength(t) == t.lengths[t.activeTab]

\* Math.ceil(currentData.length / ITEMS_PER_PAGE)
totalPages(t) == (CurrentLength(t) + (ITEMS_PER_PAGE - 1)) \div ITEMS_PER_PAGE

\* A faulty variant of ResetPage: the page effect leaves the page alone.
ResetPageKeeps(p) == p

\* setCurrentPage(1) of the effect on [activeTab, searchTerm, filters]
ResetPage(p) == 1

\* setCurrentPage(p => Math.max(1, p - 1))
PreviousPage(p) == Max(1, p - 1)

\* setCurrentPage(p => Math.min(totalPages, p + 1))
NextPage(pages, p) == IF pages <= p + 1 THEN pages ELSE p + 1

\* The lengths that the four tables can have after a render.
TableLengths ==
    { [clients |-> 0, products |-> 0, suppliers |-> 0, redes |-> 0],
      [clients |-> 61, products |-> 31, suppliers |-> 30, redes |-> 1],
      [clients |-> 29, products |-> 60, suppliers |-> 0, redes |-> 31] }

\* The texts typed into the search box.
SearchTerms == {<<>>, <<"a">>}

\* The setup that was confirmed over the sheet.
DashboardFilters ==
    [NoFilter EXCEPT !.channel = <<<<"R", "C">>>>,
                     !.region = <<<<"R", "1">>, <<"R", "2">>>>,
                     !.division = <<<<"N">>, <<"S">>>>]

AppOnDashboard ==
    [loading |-> FALSE, isSetupComplete |-> TRUE,
     selectedChannels |-> DashboardFilters.channel,
     selectedRegions |-> DashboardFilters.region,
     selectedDivisions |-> DashboardFilters.division]

\* The dashboard as it is first shown over the sheet, with tables of some lengths.
InitDashboard ==
    \E rows \in parseCSV(SheetText) : \E lengths \in TableLengths :
        /\ InitEngine(rows, DashboardFilters)
        /\ csv = SheetText
        /\ app = AppOnDashboard
        /\ reads = <<>>
        /\ table = [TableMounted EXCEPT !.lengths = lengths]
        /\ panel = PanelMounted
        /\ service = NoRequests

\* The handlers run between renders, once the effects of the last render ran.
TableSettled == app.isSetupComplete /\ ~table.effects

\* onClick of a tab: setActiveTab(tab.id); setSearchTerm(''). The tables are
\* computed anew when the search term changed, and the page effect is due
\* when the tab or the search term changed.
SwitchTab ==
    /\ TableSettled
    /\ \E tab \in Tabs : \E lengths \in TableLengths :
          table' = [table EXCEPT
                       !.activeTab = tab,
                       !.searchTerm = <<>>,
                       !.lengths = IF table.searchTerm # <<>> THEN lengths ELSE @,
                       !.effects = (tab # table.activeTab \/ table.searchTerm # <<>>)]
    /\ UNCHANGED <<data, filters, calls, kpis, filtered, options, aggregates, csv,
                   app, reads, panel, service>>

\* onChange of the search box: setSearchTerm(e.target.value)
EditSearch ==
    /\ TableSettled
    /\ \E term \in SearchTerms \ {table.searchTerm} : \E lengths \in TableLengths :
          table' = [table EXCEPT !.searchTerm = term, !.lengths = lengths, !.effects = TRUE]
    /\ UNCHANGED <<data, filters, calls, kpis, filtered, options, aggregates, csv,
                   app, reads, panel, service>>

\* handleFilterChange and clearFilters as the table sees them: the filters are
\* a new object, the tables are computed anew and the page effect is due.
ChangeTableFilters ==
    /\ TableSettled
    /\ \/ \E key \in AdditionalKeys : \E value \in Offered(key) :
             SetFilters(handleFilterChange(filters, key, value))
       \/ LimparShown /\ SetFilters(clearFilters(filters))
    /\ \E lengths \in TableLengths :
          table' = [table EXCEPT !.lengths = lengths, !.effects = TRUE]
    /\ UNCHANGED <<panel, service>>

\* useEffect(() => { setCurrentPage(1); }, [activeTab, searchTerm, filters])
RunPageEffect ==
    /\ table.effects
    /\ table' = [table EXCEPT !.currentPage = ResetPage(@), !.effects = FALSE]
    /\ UNCHANGED <<data, filters, calls, kpis, filtered, options, aggregates, csv,
                   app, reads, panel, service>>

\* onClick of 'Anterior', disabled on page 1.
Anterior ==
    /\ TableSettled
    /\ table.currentPage # 1
    /\ table' = [table EXCEPT !.currentPage = PreviousPage(@)]
    /\ UNCHANGED <<data, filters, calls, kpis, filtered, options, aggregates, csv,
                   app, reads, panel, service>>

\* onClick of 'Próximo', disabled on the last page and over an empty table.
Proximo ==
    /\ TableSettled
    /\ ~(table.currentPage = totalPages(table) \/ totalPages(table) = 0)
    /\ table' = [table EXCEPT !.currentPage = NextPage(totalPages(table), @)]
    /\ UNCHANGED <<data, filters, calls, kpis, filtered, options, aggregates, csv,
                   app, reads, panel, service>>

NextPaging ==
    \/ SwitchTab
    \/ EditSearch
    \/ ChangeTableFilters
    \/ RunPageEffect
    \/ Anterior
    \/ Proximo

SpecPaging == InitDashboard /\ [][NextPaging]_vars

\* C29: once the effects have run the page is in range,
\* 1 <= currentPage <= max(1, totalPages) with totalPages = ceil(rows / 30);
\* a change of the tab, of the search term or of the filters makes the page
\* effect due, which puts the page back to 1 before anything else happens;
\* and a click on Anterior or Próximo moves the page by one at most.
C29_PageInRange ==
    /\ [](~table.effects =>
             1 <= table.currentPage /\ table.currentPage <= Max(1, totalPages(table)))
    /\ [][/\ (table'.activeTab # table.activeTab \/ table'.searchTerm # table.searchTerm
                 \/ filters' # filters) => table'.effects
          /\ table.effects => table'.currentPage = 1 /\ ~table'.effects
          /\ ~table.effects /\ table'.currentPage # table.currentPage =>
                 table'.currentPage \in {table.currentPage - 1, table.currentPage + 1}]_vars

\* The third page of a searched table of three pages is shown.
C29_Witness ==
    /\ ~table.effects
    /\ table.currentPage = 3
    /\ totalPages(table) = 3
    /\ table.searchTerm # <<>>
    /\ LimparShown

(***************************************************************************)
(* InsightsPanel: fetchInsights and the calls of generateStrategicInsights *)
(* that are in flight.                                                     *)
(***************************************************************************)
\* The calls of generateStrategicInsights that the model follows.
MaxRequests == 3

\* What generateContent gives for a call: a rejection, or a response whose
\* text is empty or is the analysis of the call's context.
Rejected == [rejected |-> TRUE]

AnalysisOf(id) == <<"#">> \o IndexText(id)

Responses(id) == {Rejected, [text |-> <<>>], [text |-> AnalysisOf(id)]}

Analysing ==
    <<"A", "n", "a", "l", "i", "s", "a", "n", "d", "o", " ", "d", "a", "d", "o", "s", " ", "p", "a", "r", "a", " ", "g", "e", "r", "a", "r", " ", "i", "n", "s", "i", "g", "h", "t", "s", ".", ".", ".">>

Offline ==
    <<"A", "s", "s", "i", "s", "t", "e", "n", "t", "e", " ", "o", "f", "f", "l", "i", "n", "e", ".", " ", "V", "e", "r", "i", "f", "i", "q", "u", "e", " ", "c", "o", "n", "e", "x", "ã", "o", ".">>

\* generateStrategicInsights: response.text || "Analisando ...", and the
\* offline message from the catch block.
generateStrategicInsights(response) ==
    IF response = Rejected THEN Offline
    ELSE IF response.text # <<>> THEN response.text
    ELSE Analysing

\* The panel's handlers run once the effect of the last render ran.
PanelSettled == app.isSetupComplete /\ ~panel.effects

\* fetchInsights up to its await: setLoading(true) and the call is in flight.
FetchInsights ==
    /\ service.issued < MaxRequests
    /\ service' = [service EXCEPT !.issued = @ + 1, !.pending = @ \cup {service.issued + 1}]

\* useEffect(() => { if (filters.region.length > 0 || filters.division.length > 0) fetchInsights(); }, [filters])
RunPanelEffect ==
    /\ panel.effects
    /\ IF Len(filters.region) > 0 \/ Len(filters.division) > 0
       THEN /\ FetchInsights
            /\ panel' = [panel EXCEPT !.loading = TRUE, !.effects = FALSE]
       ELSE /\ panel' = [panel EXCEPT !.effects = FALSE]
            /\ UNCHANGED service
    /\ UNCHANGED <<data, filters, calls, kpis, filtered, options, aggregates, csv,
                   app, reads, table>>

\* onClick of 'Gerar Insights', disabled while loading.
GerarInsights ==
    /\ PanelSettled
    /\ ~panel.loading
    /\ FetchInsights
    /\ panel' = [panel EXCEPT !.loading = TRUE]
    /\ UNCHANGED <<data, filters, calls, kpis, filtered, options, aggregates, csv,
                   app, reads, table>>

\* handleFilterChange and clearFilters as the panel sees them: the filters
\* prop is a new object and the effect is due.
ChangePanelFilters ==
    /\ PanelSettled
    /\ service.issued < MaxRequests
    /\ \/ \E key \in AdditionalKeys : \E value \in Offered(key) :
             SetFilters(handleFilterChange(filters, key, value))
       \/ LimparShown /\ SetFilters(clearFilters(filters))
    /\ panel' = [panel EXCEPT !.effects = TRUE]
    /\ UNCHANGED <<table, service>>

\* fetchInsights after its await, for one of the calls in flight:
\* setInsight(result); setLoading(false)
ResolveInsights ==
    /\ \E id \in service.pending : \E response \in Responses(id) :
          /\ panel' = [panel EXCEPT !.insight = generateStrategicInsights(response),
                                    !.loading = FALSE]
          /\ service' = [service EXCEPT
                            !.pending = @ \ {id},
                            !.answers = (id :> generateStrategicInsights(response)) @@ @]
    /\ UNCHANGED <<data, filters, calls, kpis, filtered, options, aggregates, csv,
                   app, reads, table>>

NextInsights ==
    \/ RunPanelEffect
    \/ GerarInsights
    \/ ChangePanelFilters
    \/ ResolveInsights

SpecInsights == InitDashboard /\ [][NextInsights]_vars

\* C30: once no call is in flight the insight shown is the answer to the call
\* that was issued last; loading is true while a call is in flight; and a
\* call that fails is answered with the offline message, which is shown with
\* loading false.
C30_LatestInsight ==
    /\ [](service.pending = {} /\ service.issued > 0 =>
             panel.insight = service.answers[service.issued])
    /\ [](service.pending # {} => panel.loading)
    /\ [][\A id \in service.pending \ service'.pending :
             service'.answers[id] = Offline =>
                 panel'.insight = Offline /\ ~panel'.loading]_vars
====
